---- MODULE Spec2Model ----
(***************************************************************************)
(* A model of the customer-data pipeline: the DataProfiler of             *)
(* src/src/part1, the PIIDetector of src/src/part2, the FintechGXValidator *)
(* of src/src/part3, the DataRemediator of src/src/part4/cleaning.py, the  *)
(* DataMasker of src/src/part5, setup_pipeline_logger of src/src/utils and *)
(* the FintechPipeline of main.py.                                         *)
(*                                                                         *)
(* A cell of the table is a record [t, s, n]: t is the kind of the value   *)
(* ("none" = Python None, "nan" = float NaN, "str" = a string, "num" = a   *)
(* number), s the characters of a string (a sequence of one-character      *)
(* strings) and n the number.  A table is a sequence of rows, a row a      *)
(* record with the ten columns of the customer schema.                     *)
(***************************************************************************)
EXTENDS Integers, Sequences, FiniteSets, TLC

VARIABLES
    src_df,         \* the table handed to DataRemediator(df) / the table of the input file
    df,             \* DataRemediator.df, the private working copy
    log_stats,      \* DataRemediator.log_stats
    last_op,        \* the last DataRemediator method called on the handle
    raised,         \* the exception the last call raised ("none": it returned self)
    calls,          \* number of calls made on the handle
    pc,             \* FintechPipeline.run: the statement to execute next
    input_exists,   \* whether the input file exists
    fault_at,       \* the stage at which the environment fails (a write error), or "none"
    execution_log,  \* FintechPipeline.execution_log
    files,          \* the files written so far
    report_writes,  \* number of times _write_final_report ran
    pending_exc,    \* the exception in flight inside run() ("none": none)
    raised_in,      \* the stage of run() whose statement raised ("none": none did)
    escaped,        \* whether an exception left run()
    mask_src,       \* the table handed to DataMasker(df)
    mask_df,        \* DataMasker.df, the private working copy
    mask_runs,      \* how many times each DataMasker method was called on the handle
    mask_raised,    \* the exception the last DataMasker call raised ("none": it returned self)
    val_df,         \* FintechGXValidator.df
    val_suite,      \* the expectations added to FintechGXValidator.suite
    val_result,     \* the result of validate() (NoResult: not yet run)
    val_report,     \* the report _generate_custom_report wrote (NoReport: none)
    val_raised,     \* the exception the last validate() raised ("none": it returned)
    validations,    \* number of validate() calls made on the validator
    gx_data_sources,            \* names in context.data_sources
    gx_validation_definitions,  \* names in context.validation_definitions
    now,            \* the clock at the last validate() call, in seconds
    risk_results,   \* PIIDetector.risk_results (NoRisk: scan_pii has not run)
    cleaning_log,   \* the file generate_log wrote (NoCleaningLog: none)
    quality_status, \* run(): status, computed from the re-validation ("none": not yet)
    prof_file,      \* the rows of the input file of DataProfiler
    prof_df,        \* DataProfiler.df (meaningful once prof_loaded)
    prof_loaded,    \* whether DataProfiler.df is not None
    total_rows,     \* DataProfiler.total_rows
    report_lines,   \* DataProfiler.report_lines after the three header lines
    prof_raised,    \* the exception the last DataProfiler call raised ("none": it returned)
    prof_warnings,  \* the warnings issued during DataProfiler calls
    prof_steps,     \* number of DataProfiler calls made
    loggerDict,     \* logging.Logger.manager.loggerDict: the loggers created, by name
    root_handlers,  \* number of handlers on the root logger
    setup_calls,    \* number of setup_pipeline_logger calls made, by name
    last_logger     \* the logger the last setup_pipeline_logger call returned

remVars == <<src_df, df, log_stats, last_op, raised, calls>>
pipeVars == <<pc, input_exists, fault_at, execution_log, files, report_writes, pending_exc, raised_in, escaped>>
maskVars == <<mask_src, mask_df, mask_runs, mask_raised>>
valVars == <<val_df, val_suite, val_result, val_report, val_raised, validations,
            gx_data_sources, gx_validation_definitions, now>>
piiVars == <<risk_results>>
cleanVars == <<cleaning_log, quality_status>>
profVars == <<prof_file, prof_df, prof_loaded, total_rows, report_lines, prof_raised,
             prof_warnings, prof_steps>>
logVars == <<loggerDict, root_handlers, setup_calls, last_logger>>
vars == <<remVars, pipeVars, maskVars, valVars, piiVars, cleanVars, profVars, logVars>>

\* the variables of the other components
notRem == <<pipeVars, maskVars, valVars, piiVars, cleanVars, profVars, logVars>>
notPipe == <<maskVars, valVars, piiVars, cleanVars, profVars, logVars>>
notMask == <<remVars, pipeVars, valVars, piiVars, cleanVars, profVars, logVars>>
notVal == <<remVars, pipeVars, maskVars, piiVars, cleanVars, profVars, logVars>>
notPii == <<remVars, pipeVars, maskVars, valVars, cleanVars, profVars, logVars>>
notClean == <<remVars, pipeVars, maskVars, valVars, piiVars, profVars, logVars>>
notProf == <<remVars, pipeVars, maskVars, valVars, piiVars, cleanVars, logVars>>
notLog == <<remVars, pipeVars, maskVars, valVars, piiVars, cleanVars, profVars>>

----------------------------------------------------------------------------
(* Bounds of the model *)

\* rows of a table
NRows == 2
\* calls made on one DataRemediator handle
MaxCalls == 3
\* calls of one method made on one DataMasker handle
MaxMaskRuns == 1
\* validate() calls made on one FintechGXValidator
MaxValidations == 2
\* calls made on one DataProfiler
MaxProfilerCalls == 2
\* setup_pipeline_logger calls made with one name
MaxSetupCalls == 2

----------------------------------------------------------------------------
(* Python strings *)

Lowers == <<"a","b","c","d","e","f","g","h","i","j","k","l","m",
            "n","o","p","q","r","s","t","u","v","w","x","y","z">>
Uppers == <<"A","B","C","D","E","F","G","H","I","J","K","L","M",
            "N","O","P","Q","R","S","T","U","V","W","X","Y","Z">>
DigitChars == <<"0","1","2","3","4","5","6","7","8","9">>

LowerSet == {Lowers[i] : i \in 1..26}
UpperSet == {Uppers[i] : i \in 1..26}
DigitSet == {DigitChars[i] : i \in 1..10}
UpperOf == [c \in LowerSet |-> Uppers[CHOOSE i \in 1..26 : Lowers[i] = c]]
LowerOf == [c \in UpperSet |-> Lowers[CHOOSE i \in 1..26 : Uppers[i] = c]]
ValueOf == [c \in DigitSet |-> (CHOOSE i \in 1..10 : DigitChars[i] = c) - 1]

IsLower(c) == c \in LowerSet
IsUpper(c) == c \in UpperSet
IsCased(c) == IsLower(c) \/ IsUpper(c)
IsDigit(c) == c \in DigitSet
IsSpace(c) == c \in {" ", "\t", "\n"}
ToUpper(c) == IF IsLower(c) THEN UpperOf[c] ELSE c
ToLower(c) == IF IsUpper(c) THEN LowerOf[c] ELSE c
DigitVal(c) == ValueOf[c]

\* str.lower()
Lower(s) == [i \in 1..Len(s) |-> ToLower(s[i])]

\* str.strip(): leading and trailing whitespace removed
Strip(s) ==
    LET keep == {i \in 1..Len(s) : ~IsSpace(s[i])}
    IN  IF keep = {} THEN <<>>
        ELSE LET lo == CHOOSE i \in keep : \A j \in keep : i <= j
                 hi == CHOOSE i \in keep : \A j \in keep : j <= i
             IN  SubSeq(s, lo, hi)

\* str.title(): a cased character is upper-cased when the character before it
\* is not cased (or it is the first), lower-cased otherwise
Title(s) ==
    [i \in 1..Len(s) |->
        IF i > 1 /\ IsCased(s[i-1]) THEN ToLower(s[i]) ELSE ToUpper(s[i])]

\* re.sub(r'\D', '', s): the digits of s, in order
RECURSIVE OnlyDigits(_)
OnlyDigits(s) ==
    IF s = <<>> THEN <<>>
    ELSE IF IsDigit(Head(s)) THEN <<Head(s)>> \o OnlyDigits(Tail(s))
         ELSE OnlyDigits(Tail(s))

\* str(n) of a non-negative integer
RECURSIVE IntStr(_)
IntStr(n) ==
    IF n < 10 THEN <<DigitChars[n + 1]>>
    ELSE IntStr(n \div 10) \o <<DigitChars[(n % 10) + 1]>>

----------------------------------------------------------------------------
(* Cells *)

NoneCell == [t |-> "none", s |-> <<>>, n |-> 0]
NaNCell  == [t |-> "nan",  s |-> <<>>, n |-> 0]
StrCell(s) == [t |-> "str", s |-> s, n |-> 0]
NumCell(n) == [t |-> "num", s |-> <<>>, n |-> n]

\* pd.isna / Series.isna
IsNa(c) == c.t \in {"none", "nan"}
NotNa(c) == ~IsNa(c)

\* str(x) / Series.astype(str) before pandas 3: a missing value becomes the
\* text 'None' or 'nan'
PyStr(c) ==
    CASE c.t = "none" -> <<"N","o","n","e">>
      [] c.t = "nan"  -> <<"n","a","n">>
      [] c.t = "str"  -> c.s
      [] c.t = "num"  -> IntStr(c.n)

----------------------------------------------------------------------------
(* Dates: pd.to_datetime(..., errors='coerce').dt.strftime('%Y-%m-%d')      *)
(* The parser covers the three layouts the data uses: YYYY-MM-DD,          *)
(* YYYY/MM/DD and MM/DD/YYYY (two-digit month and day); any other text is  *)
(* unparseable and is coerced to NaT.                                      *)

AllDigits(s, a, b) == \A i \in a..b : IsDigit(s[i])

RECURSIVE NumOf(_, _, _)
NumOf(s, a, b) == IF a > b THEN 0 ELSE NumOf(s, a, b - 1) * 10 + DigitVal(s[b])

\* the pattern ^\d{4}-\d{2}-\d{2}$ of normalize_dates
IsoShape(s) ==
    /\ Len(s) = 10
    /\ AllDigits(s, 1, 4) /\ s[5] = "-" /\ AllDigits(s, 6, 7)
    /\ s[8] = "-" /\ AllDigits(s, 9, 10)

YmdSlashShape(s) ==
    /\ Len(s) = 10
    /\ AllDigits(s, 1, 4) /\ s[5] = "/" /\ AllDigits(s, 6, 7)
    /\ s[8] = "/" /\ AllDigits(s, 9, 10)

MdySlashShape(s) ==
    /\ Len(s) = 10
    /\ AllDigits(s, 1, 2) /\ s[3] = "/" /\ AllDigits(s, 4, 5)
    /\ s[6] = "/" /\ AllDigits(s, 7, 10)

HasShape(fmt, s) ==
    CASE fmt = "%Y-%m-%d" -> IsoShape(s)
      [] fmt = "%Y/%m/%d" -> YmdSlashShape(s)
      [] fmt = "%m/%d/%Y" -> MdySlashShape(s)
      [] OTHER -> FALSE

\* the year, month and day a string of layout fmt spells
FieldsOf(fmt, s) ==
    IF fmt = "%m/%d/%Y"
    THEN [y |-> NumOf(s, 7, 10), m |-> NumOf(s, 1, 2), d |-> NumOf(s, 4, 5)]
    ELSE [y |-> NumOf(s, 1, 4), m |-> NumOf(s, 6, 7), d |-> NumOf(s, 9, 10)]

IsLeap(y) == (y % 4 = 0 /\ y % 100 # 0) \/ y % 400 = 0

DaysIn(y, m) ==
    IF m = 2 THEN (IF IsLeap(y) THEN 29 ELSE 28)
    ELSE IF m \in {4, 6, 9, 11} THEN 30 ELSE 31

CalendarDate(f) == f.y >= 1 /\ f.m \in 1..12 /\ f.d >= 1 /\ f.d <= DaysIn(f.y, f.m)

\* pd.Timestamp.min = 1677-09-21T00:12:43, pd.Timestamp.max = 2262-04-11T23:47:16
InTimestampBounds(f) ==
    /\ (f.y > 1677 \/ (f.y = 1677 /\ (f.m > 9 \/ (f.m = 9 /\ f.d >= 22))))
    /\ (f.y < 2262 \/ (f.y = 2262 /\ (f.m < 4 \/ (f.m = 4 /\ f.d <= 11))))

\* the major versions of pandas a build of the pipeline can run on: great_expectations
\* 1.x, whose API data_validator.py uses, installs with pandas 1.x and with 2.x
PandasMajors == {1, 2}

Formats == <<"%Y-%m-%d", "%Y/%m/%d", "%m/%d/%Y">>

NaT == [y |-> 0, m |-> 0, d |-> 0]

\* parsing one string under one format
ParseWith(fmt, s) ==
    IF HasShape(fmt, s) /\ CalendarDate(FieldsOf(fmt, s)) /\ InTimestampBounds(FieldsOf(fmt, s))
    THEN FieldsOf(fmt, s)
    ELSE NaT

\* guess_datetime_format(first non-null element): the layout whose text is a
\* calendar date, or "none" (then every element is parsed on its own)
GuessFormat(s) ==
    IF \E k \in 1..3 : HasShape(Formats[k], s) /\ CalendarDate(FieldsOf(Formats[k], s))
    THEN Formats[CHOOSE k \in 1..3 : HasShape(Formats[k], s) /\ CalendarDate(FieldsOf(Formats[k], s))]
    ELSE "none"

\* parsing one string on its own (dateutil): any of the layouts
ParseAny(s) ==
    IF \E k \in 1..3 : ParseWith(Formats[k], s) # NaT
    THEN ParseWith(Formats[CHOOSE k \in 1..3 : ParseWith(Formats[k], s) # NaT], s)
    ELSE NaT

\* pd.to_datetime(column, errors='coerce').  pandas 1 parses every element on
\* its own; pandas 2 infers one format from the first non-null element and
\* coerces every element that does not match it to NaT.
ToDatetime(col, major) ==
    LET strs == {i \in 1..Len(col) : col[i].t = "str"}
        first == IF strs = {} THEN 0 ELSE CHOOSE i \in strs : \A j \in strs : i <= j
        fmt == IF major >= 2 /\ first # 0 THEN GuessFormat(col[first].s) ELSE "none"
    IN  [i \in 1..Len(col) |->
            IF col[i].t # "str" THEN NaT
            ELSE IF fmt = "none" THEN ParseAny(col[i].s)
            ELSE ParseWith(fmt, col[i].s)]

Pad2(n) == <<DigitChars[(n \div 10) + 1], DigitChars[(n % 10) + 1]>>
Pad4(n) == Pad2(n \div 100) \o Pad2(n % 100)

\* Series.dt.strftime('%Y-%m-%d'): NaT becomes NaN
Strftime(f) ==
    IF f = NaT THEN NaNCell
    ELSE StrCell(Pad4(f.y) \o <<"-">> \o Pad2(f.m) \o <<"-">> \o Pad2(f.d))

----------------------------------------------------------------------------
(* Tables *)

Columns == <<"customer_id", "first_name", "last_name", "email", "phone",
             "date_of_birth", "address", "income", "account_status", "created_date">>

Rows(t) == 1..Len(t)

\* df[col]
Column(t, col) == [i \in Rows(t) |-> t[i][col]]

\* df[col] = values
SetColumn(t, col, values) == [i \in Rows(t) |-> [t[i] EXCEPT ![col] = values[i]]]

\* Series.sum() of a boolean series given as the set of its true positions
Count(S) == Cardinality(S)

----------------------------------------------------------------------------
(* DataRemediator *)

\* the methods class DataRemediator defines
RemediatorMethods ==
    {"normalize_names", "normalize_phones", "normalize_dates", "handle_missing",
     "generate_log"}

\* log_stats as __init__ leaves it; missing_fills is an empty dict
InitialLogStats ==
    [phone_fixes |-> 0, date_fixes |-> 0, name_fixes |-> 0, missing_fills |-> <<>>]

\* Series.astype(str).str.strip().str.title() on one cell
TitleCell(c) == StrCell(Title(Strip(PyStr(c))))

\* one column of normalize_names: the column and the counter after it
NormalizeNameColumn(st, col) ==
    LET before == Column(st.df, col)
        after == [i \in Rows(st.df) |-> TitleCell(before[i])]
    IN  [df |-> SetColumn(st.df, col, after),
         log_stats |-> [st.log_stats EXCEPT
            !.name_fixes = @ + Count({i \in Rows(st.df) : before[i] # after[i]})]]

\* normalize_names: first_name, then last_name
NormalizeNames(st) ==
    NormalizeNameColumn(NormalizeNameColumn(st, "first_name"), "last_name")

\* format_phone: whether the value has exactly 10 digits
TenDigits(c) == Len(OnlyDigits(PyStr(c))) = 10

\* a format_phone that also reformats a longer number, from its last 10 digits
FormatPhone_LastTen(c) ==
    LET digits == OnlyDigits(PyStr(c))
        n == Len(digits)
    IN  IF n >= 10
        THEN StrCell(SubSeq(digits, n - 9, n - 7) \o <<"-">> \o SubSeq(digits, n - 6, n - 4)
                     \o <<"-">> \o SubSeq(digits, n - 3, n))
        ELSE c

\* format_phone: the value returned
FormatPhone(c) ==
    LET digits == OnlyDigits(PyStr(c))
    IN  IF Len(digits) = 10
        THEN StrCell(SubSeq(digits, 1, 3) \o <<"-">> \o SubSeq(digits, 4, 6)
                     \o <<"-">> \o SubSeq(digits, 7, 10))
        ELSE c

\* format_phone: what one value adds to phone_fixes
PhoneFixCount(c) == IF TenDigits(c) THEN 1 ELSE 0

RECURSIVE SumPhoneFixes(_, _)
SumPhoneFixes(col, k) ==
    IF k = 0 THEN 0 ELSE SumPhoneFixes(col, k - 1) + PhoneFixCount(col[k])

\* normalize_phones
NormalizePhones(st) ==
    LET before == Column(st.df, "phone")
    IN  [df |-> SetColumn(st.df, "phone", [i \in Rows(st.df) |-> FormatPhone(before[i])]),
         log_stats |-> [st.log_stats EXCEPT
            !.phone_fixes = @ + SumPhoneFixes(before, Len(before))]]

\* Series.replace('invalid_date', np.nan) on one cell
ReplaceSentinel(c) ==
    IF c.t = "str" /\ c.s = <<"i","n","v","a","l","i","d","_","d","a","t","e">>
    THEN NaNCell ELSE c

\* the mask of normalize_dates: notna and not already YYYY-MM-DD
NeedsDateFix(c) == NotNa(c) /\ ~IsoShape(PyStr(c))

\* one column of normalize_dates
NormalizeDateColumn(st, col, major) ==
    LET replaced == [i \in Rows(st.df) |-> ReplaceSentinel(st.df[i][col])]
        parsed == ToDatetime(replaced, major)
    IN  [df |-> SetColumn(st.df, col, [i \in Rows(st.df) |-> Strftime(parsed[i])]),
         log_stats |-> [st.log_stats EXCEPT
            !.date_fixes = @ + Count({i \in Rows(st.df) : NeedsDateFix(replaced[i])})]]

\* normalize_dates: date_of_birth, then created_date
NormalizeDates(st, major) ==
    NormalizeDateColumn(NormalizeDateColumn(st, "date_of_birth", major), "created_date", major)

\* fill_map of handle_missing, in its order
FillColumns == <<"first_name", "last_name", "address", "account_status", "income">>

FillValue(col) ==
    CASE col \in {"first_name", "last_name", "address"} ->
            StrCell(<<"[","U","N","K","N","O","W","N","]">>)
      [] col = "account_status" -> StrCell(<<"u","n","k","n","o","w","n">>)
      [] col = "income" -> NumCell(0)

\* missing_count of handle_missing for one column
MissingCount(t, col) ==
    Count({i \in Rows(t) : IsNa(t[i][col])})
    + (IF col = "income"
       THEN Count({i \in Rows(t) : Lower(PyStr(t[i][col])) = <<"n","a","n">>})
       ELSE 0)

\* Series.fillna(val) on one cell
FillNa(c, val) == IF IsNa(c) THEN val ELSE c

\* a missing_fills[col] += missing_count
SetFill_Accumulate(fills, col, count) ==
    [c \in (DOMAIN fills) \cup {col} |->
        IF c = col THEN (IF col \in DOMAIN fills THEN fills[col] ELSE 0) + count
        ELSE fills[c]]

\* missing_fills[col] = missing_count: the dict with the key set
SetFill(fills, col, count) ==
    [c \in (DOMAIN fills) \cup {col} |-> IF c = col THEN count ELSE fills[c]]

\* one column of handle_missing
FillColumn(st, col) ==
    [df |-> SetColumn(st.df, col, [i \in Rows(st.df) |-> FillNa(st.df[i][col], FillValue(col))]),
     log_stats |-> [st.log_stats EXCEPT
        !.missing_fills = SetFill(@, col, MissingCount(st.df, col))]]

RECURSIVE FillFirst(_, _)
FillFirst(st, k) == IF k = 0 THEN st ELSE FillColumn(FillFirst(st, k - 1), FillColumns[k])

\* a handle_missing that also fills a null date_of_birth with '[UNKNOWN]'
HandleMissing_FillDates(st) ==
    LET r == FillFirst(st, Len(FillColumns))
    IN  [r EXCEPT !.df = SetColumn(r.df, "date_of_birth",
            [i \in Rows(r.df) |->
                FillNa(r.df[i].date_of_birth, StrCell(<<"[","U","N","K","N","O","W","N","]">>))])]

\* handle_missing: every column of fill_map, in order
HandleMissing(st) == FillFirst(st, Len(FillColumns))

\* generate_log: "- Status: PASS" if validation_after == 0 else "- Status: REVIEW REQUIRED"
Verdict(validation_after) == IF validation_after = 0 THEN "PASS" ELSE "REVIEW REQUIRED"

\* a generate_log whose verdict is PASS whenever cleaning did not add failures
GenerateLog_NoRegression(st, validation_before, validation_after) ==
    [written |-> TRUE,
     phone_fixes |-> st.log_stats.phone_fixes,
     date_fixes |-> st.log_stats.date_fixes,
     name_fixes |-> st.log_stats.name_fixes,
     missing_fills |-> st.log_stats.missing_fills,
     validation_before |-> validation_before,
     validation_after |-> validation_after,
     status |-> IF validation_after <= validation_before THEN "PASS" ELSE "REVIEW REQUIRED",
     rows |-> Len(st.df)]

\* generate_log(output_path, validation_before, validation_after): the lines of
\* the cleaning log that carry values
GenerateLog(st, validation_before, validation_after) ==
    [written |-> TRUE,
     phone_fixes |-> st.log_stats.phone_fixes,
     date_fixes |-> st.log_stats.date_fixes,
     name_fixes |-> st.log_stats.name_fixes,
     missing_fills |-> st.log_stats.missing_fills,
     validation_before |-> validation_before,
     validation_after |-> validation_after,
     status |-> Verdict(validation_after),
     rows |-> Len(st.df)]

----------------------------------------------------------------------------
(* The tables the model starts from *)

\* the rows of the clean_df fixture (addresses shortened to the street)
CleanRows ==
    <<[customer_id |-> NumCell(1), first_name |-> StrCell(<<"J","o","h","n">>), last_name |-> StrCell(<<"D","o","e">>),
         email |-> StrCell(<<"j","o","h","n",".","d","o","e","@","g","m","a","i","l",".","c","o","m">>),
         phone |-> StrCell(<<"5","5","5","-","1","2","3","-","4","5","6","7">>),
         date_of_birth |-> StrCell(<<"1","9","8","5","-","0","3","-","1","5">>),
         address |-> StrCell(<<"1","2","3"," ","M","a","i","n"," ","S","t">>),
         income |-> NumCell(75000), account_status |-> StrCell(<<"a","c","t","i","v","e">>),
         created_date |-> StrCell(<<"2","0","2","4","-","0","1","-","1","0">>)],
      [customer_id |-> NumCell(2), first_name |-> StrCell(<<"J","a","n","e">>), last_name |-> StrCell(<<"S","m","i","t","h">>),
         email |-> StrCell(<<"j","a","n","e",".","s","m","i","t","h","@","c","o","m","p","a","n","y",".","c","o","m">>),
         phone |-> StrCell(<<"5","5","5","-","9","8","7","-","6","5","4","3">>),
         date_of_birth |-> StrCell(<<"1","9","9","0","-","0","7","-","2","2">>),
         address |-> StrCell(<<"4","5","6"," ","O","a","k"," ","A","v","e">>),
         income |-> NumCell(95000), account_status |-> StrCell(<<"i","n","a","c","t","i","v","e">>),
         created_date |-> StrCell(<<"2","0","2","4","-","0","1","-","1","1">>)],
      [customer_id |-> NumCell(3), first_name |-> StrCell(<<"B","o","b">>), last_name |-> StrCell(<<"J","o","h","n","s","o","n">>),
         email |-> StrCell(<<"b","o","b",".","j","o","h","n","s","o","n","@","e","m","a","i","l",".","c","o","m">>),
         phone |-> StrCell(<<"5","5","5","-","2","3","4","-","5","6","7","8">>),
         date_of_birth |-> StrCell(<<"1","9","8","8","-","1","1","-","0","8">>),
         address |-> StrCell(<<"7","8","9"," ","P","i","n","e"," ","R","d">>),
         income |-> NumCell(60000), account_status |-> StrCell(<<"s","u","s","p","e","n","d","e","d">>),
         created_date |-> StrCell(<<"2","0","2","4","-","0","1","-","1","2">>)]>>

\* the rows of the sample_df fixture (addresses shortened to the street)
SampleRows ==
    <<[customer_id |-> NumCell(1), first_name |-> StrCell(<<"J","o","h","n">>), last_name |-> StrCell(<<"D","o","e">>),
         email |-> StrCell(<<"j","o","h","n",".","d","o","e","@","g","m","a","i","l",".","c","o","m">>),
         phone |-> StrCell(<<"5","5","5","-","1","2","3","-","4","5","6","7">>),
         date_of_birth |-> StrCell(<<"1","9","8","5","-","0","3","-","1","5">>),
         address |-> StrCell(<<"1","2","3"," ","M","a","i","n"," ","S","t">>),
         income |-> NumCell(75000), account_status |-> StrCell(<<"a","c","t","i","v","e">>),
         created_date |-> StrCell(<<"2","0","2","4","-","0","1","-","1","0">>)],
      [customer_id |-> NumCell(2), first_name |-> StrCell(<<"j","a","n","e">>), last_name |-> StrCell(<<"S","m","i","t","h">>),
         email |-> StrCell(<<"j","a","n","e",".","s","m","i","t","h","@","c","o","m","p","a","n","y",".","c","o","m">>),
         phone |-> StrCell(<<"5","5","5","-","9","8","7","-","6","5","4","3">>),
         date_of_birth |-> StrCell(<<"1","9","9","0","-","0","7","-","2","2">>),
         address |-> NoneCell,
         income |-> NumCell(95000), account_status |-> StrCell(<<"a","c","t","i","v","e">>),
         created_date |-> StrCell(<<"2","0","2","4","-","0","1","-","1","1">>)],
      [customer_id |-> NumCell(3), first_name |-> NoneCell, last_name |-> StrCell(<<"J","o","h","n","s","o","n">>),
         email |-> StrCell(<<"b","o","b",".","j","o","h","n","s","o","n","@","e","m","a","i","l",".","c","o","m">>),
         phone |-> StrCell(<<"(","5","5","5",")"," ","2","3","4","-","5","6","7","8">>),
         date_of_birth |-> StrCell(<<"i","n","v","a","l","i","d","_","d","a","t","e">>),
         address |-> StrCell(<<"4","5","6"," ","O","a","k"," ","A","v","e">>),
         income |-> NaNCell, account_status |-> StrCell(<<"s","u","s","p","e","n","d","e","d">>),
         created_date |-> StrCell(<<"2","0","2","4","-","0","1","-","1","2">>)],
      [customer_id |-> NumCell(4), first_name |-> StrCell(<<"M","a","r","y">>), last_name |-> StrCell(<<"B","r","o","w","n">>),
         email |-> StrCell(<<"m","a","r","y",".","b","r","o","w","n","@","g","m","a","i","l",".","c","o","m">>),
         phone |-> StrCell(<<"5","5","5",".","3","4","5",".","6","7","8","9">>),
         date_of_birth |-> StrCell(<<"1","9","7","5","/","0","5","/","1","0">>),
         address |-> StrCell(<<"7","8","9"," ","P","i","n","e"," ","R","d">>),
         income |-> NumCell(120000), account_status |-> NoneCell,
         created_date |-> StrCell(<<"2","0","2","4","-","0","1","-","1","3">>)],
      [customer_id |-> NumCell(5), first_name |-> StrCell(<<"R","o","b","e","r","t">>), last_name |-> NoneCell,
         email |-> StrCell(<<"r","o","b","e","r","t",".","w","i","l","s","o","n","@","y","a","h","o","o",".","c","o","m">>),
         phone |-> StrCell(<<"5","5","5","4","5","6","7","8","9","0">>),
         date_of_birth |-> StrCell(<<"2","0","0","5","-","1","2","-","2","5">>),
         address |-> StrCell(<<"8","9","2"," ","E","l","m"," ","S","t">>),
         income |-> NumCell(55000), account_status |-> StrCell(<<"a","c","t","i","v","e">>),
         created_date |-> StrCell(<<"0","1","/","1","5","/","2","0","2","4">>)]>>

\* row i of a clean table of any length: the fixture's rows, repeated with new ids
CleanRow(i) == [CleanRows[((i - 1) % 3) + 1] EXCEPT !.customer_id = NumCell(i)]

NameValues ==
    {StrCell(<<"J","o","h","n">>), StrCell(<<"j","a","n","e">>), StrCell(<<"M","A","R","Y"," ","A","N","N">>), StrCell(<<" ","b","o","b"," ">>), NoneCell, NaNCell}

PhoneValues ==
    {StrCell(<<"5","5","5","-","1","2","3","-","4","5","6","7">>),
     StrCell(<<"(","5","5","5",")"," ","2","3","4","-","5","6","7","8">>),
     StrCell(<<"5","5","5","4","5","6","7","8","9","0">>),
     StrCell(<<"5","5","5","-","1","2","3","4">>),
     StrCell(<<"1","-","5","5","5","-","1","2","3","-","4","5","6","7">>),
     NaNCell}

DateValues ==
    {StrCell(<<"1","9","8","5","-","0","3","-","1","5">>),
     StrCell(<<"i","n","v","a","l","i","d","_","d","a","t","e">>),
     StrCell(<<"1","9","7","5","/","0","5","/","1","0">>),
     StrCell(<<"0","1","/","1","5","/","2","0","2","4">>),
     StrCell(<<"2","0","2","4","-","0","2","-","3","0">>),
     StrCell(<<"n","/","a">>),
     NaNCell}

\* the values each column ranges over
ColumnValues(col) ==
    CASE col \in {"first_name", "last_name"} -> NameValues
      [] col = "phone" -> PhoneValues
      [] col \in {"date_of_birth", "created_date"} -> DateValues
      [] col = "address" -> {StrCell(<<"1","2","3"," ","M","a","i","n"," ","S","t">>), NaNCell}
      [] col = "income" -> {NumCell(75000), NaNCell, StrCell(<<"n","a","n">>)}
      [] col = "account_status" -> {StrCell(<<"a","c","t","i","v","e">>), StrCell(<<"p","e","n","d","i","n","g">>), NaNCell}
      [] col = "email" -> {StrCell(<<"j","o","h","n",".","d","o","e","@","g","m","a","i","l",".","c","o","m">>),
                           StrCell(<<"J","O","H","N",".","D","O","E","@","G","M","A","I","L",".","C","O","M">>),
                           NaNCell}
      [] col = "customer_id" -> {NumCell(1), NumCell(2)}

\* a clean table in which one column takes any of its values in every row
FocusTables ==
    UNION {{[i \in 1..NRows |-> [CleanRow(i) EXCEPT ![Columns[k]] = v[i]]] :
                v \in [1..NRows -> ColumnValues(Columns[k])]} : k \in 1..Len(Columns)}

\* the tables made of rows of sample_df
SampleTables == {[i \in 1..NRows |-> SampleRows[f[i]]] : f \in [1..NRows -> 1..5]}

Tables == FocusTables \cup SampleTables

----------------------------------------------------------------------------
(* DataMasker: the per-value logic of each method.  A logic yields a record *)
(* [val, exc]: the value returned, or the exception raised (exc # "none").  *)

MaskerMethods == {"mask_names", "mask_emails", "mask_phones", "mask_addresses", "mask_dob"}

Placeholder == <<"[","U","N","K","N","O","W","N","]">>
Stars == <<"*","*","*">>

Returned(c) == [val |-> c, exc |-> "none"]
Raised(e) == [val |-> NoneCell, exc |-> e]

\* mask_names: the lambda; str(x)[0] of an empty string is an IndexError
NameLogic(x) ==
    IF NotNa(x) /\ PyStr(x) # Placeholder
    THEN IF PyStr(x) = <<>> THEN Raised("IndexError")
         ELSE Returned(StrCell(<<PyStr(x)[1]>> \o Stars))
    ELSE Returned(x)

\* the positions of '@' in s
AtPositions(s) == {i \in 1..Len(s) : s[i] = "@"}

\* an _email_logic that hides the whole local part
EmailLogic_DropLocal(val) ==
    LET s == PyStr(val)
        ats == AtPositions(s)
    IN  IF IsNa(val) \/ ats = {} THEN Returned(val)
        ELSE IF Cardinality(ats) # 1 THEN Raised("ValueError")
        ELSE LET k == CHOOSE i \in ats : TRUE
             IN  IF k = 1 THEN Raised("IndexError")
                 ELSE Returned(StrCell(<<"@">> \o SubSeq(s, k + 1, Len(s))))

\* mask_emails: _email_logic; local, domain = str(val).split('@') unpacks exactly
\* two parts (ValueError otherwise) and local[0] needs a non-empty local part
EmailLogic(val) ==
    LET s == PyStr(val)
        ats == AtPositions(s)
    IN  IF IsNa(val) \/ ats = {} THEN Returned(val)
        ELSE IF Cardinality(ats) # 1 THEN Raised("ValueError")
        ELSE LET k == CHOOSE i \in ats : TRUE
                 local == SubSeq(s, 1, k - 1)
                 domain == SubSeq(s, k + 1, Len(s))
             IN  IF local = <<>> THEN Raised("IndexError")
                 ELSE Returned(StrCell(<<local[1]>> \o Stars \o <<"@">> \o domain))

\* re.match(r'^\d{3}-\d{3}-\d{4}$', s): '$' also matches just before a final
\* newline
PhonePatternMatches(s) ==
    /\ Len(s) = 12 \/ (Len(s) = 13 /\ s[13] = "\n")
    /\ AllDigits(s, 1, 3) /\ s[4] = "-" /\ AllDigits(s, 5, 7)
    /\ s[8] = "-" /\ AllDigits(s, 9, 12)

MaskedPhoneFallback == StrCell(<<"*","*","*","-","*","*","*","-","*","*","*","*">>)

\* mask_phones: _phone_logic
PhoneLogic(val) ==
    LET val_str == PyStr(val)
    IN  IF PhonePatternMatches(val_str)
        THEN Returned(StrCell(<<"*","*","*","-","*","*","*","-">>
                              \o SubSeq(val_str, Len(val_str) - 3, Len(val_str))))
        ELSE Returned(MaskedPhoneFallback)

MaskedAddress ==
    StrCell(<<"[","M","A","S","K","E","D"," ","A","D","D","R","E","S","S","]">>)

\* mask_addresses: the whole column is set to the literal
AddressLogic(x) == Returned(MaskedAddress)

\* mask_dob: the lambda
DobLogic(x) ==
    IF NotNa(x) /\ Len(PyStr(x)) >= 4
    THEN Returned(StrCell(SubSeq(PyStr(x), 1, 4) \o <<"-","*","*","-","*","*">>))
    ELSE Returned(x)

\* the logic a method applies to a column
LogicOf(col, x) ==
    CASE col \in {"first_name", "last_name"} -> NameLogic(x)
      [] col = "email" -> EmailLogic(x)
      [] col = "phone" -> PhoneLogic(x)
      [] col = "address" -> AddressLogic(x)
      [] col = "date_of_birth" -> DobLogic(x)

\* the columns a method assigns, in the order it assigns them
MaskedColumns(m) ==
    CASE m = "mask_names" -> <<"first_name", "last_name">>
      [] m = "mask_emails" -> <<"email">>
      [] m = "mask_phones" -> <<"phone">>
      [] m = "mask_addresses" -> <<"address">>
      [] m = "mask_dob" -> <<"date_of_birth">>

\* self.df[col] = self.df[col].apply(logic) on the masker state st = [df, exc]:
\* when the logic raises on a row the assignment does not happen
ApplyLogic(st, col) ==
    LET out == [i \in Rows(st.df) |-> LogicOf(col, st.df[i][col])]
        bad == {i \in Rows(st.df) : out[i].exc # "none"}
    IN  IF st.exc # "none" THEN st
        ELSE IF bad # {}
        THEN [st EXCEPT !.exc = out[CHOOSE i \in bad : \A j \in bad : i <= j].exc]
        ELSE [st EXCEPT !.df = SetColumn(st.df, col, [i \in Rows(st.df) |-> out[i].val])]

\* the first k column assignments of method m
RECURSIVE ApplyFirst(_, _, _)
ApplyFirst(st, m, k) ==
    IF k = 0 THEN st ELSE ApplyLogic(ApplyFirst(st, m, k - 1), MaskedColumns(m)[k])

\* one DataMasker method on the table t
MaskMethod(m, t) == ApplyFirst([df |-> t, exc |-> "none"], m, Len(MaskedColumns(m)))

\* the chain run() calls on the masker
MaskChain == <<"mask_names", "mask_emails", "mask_phones", "mask_addresses", "mask_dob">>

\* the first k calls of a chain of methods on DataMasker(t), stopping at a raise
RECURSIVE RunMaskChain(_, _, _)
RunMaskChain(t, chain, k) ==
    IF k = 0 THEN [df |-> t, exc |-> "none"]
    ELSE LET r == RunMaskChain(t, chain, k - 1)
         IN  IF r.exc # "none" THEN r ELSE MaskMethod(chain[k], r.df)

----------------------------------------------------------------------------
(* FintechGXValidator: the suite of build_expectations, the row-level       *)
(* results Great Expectations computes for it, and _generate_custom_report. *)
(* A column-map expectation skips null values; only the not-null            *)
(* expectation counts them.  Row positions are 0-based, as GX reports them. *)

Expectation(type, column) == [type |-> type, column |-> column]

\* build_expectations: the 14 expectations, in the order they are added
Expectations ==
    <<Expectation("expect_column_values_to_not_be_null", "customer_id"),
      Expectation("expect_column_values_to_be_unique", "customer_id"),
      Expectation("expect_column_values_to_be_between", "customer_id"),
      Expectation("expect_column_values_to_not_be_null", "first_name"),
      Expectation("expect_column_value_lengths_to_be_between", "first_name"),
      Expectation("expect_column_values_to_match_regex", "first_name"),
      Expectation("expect_column_values_to_not_be_null", "last_name"),
      Expectation("expect_column_value_lengths_to_be_between", "last_name"),
      Expectation("expect_column_values_to_not_be_null", "income"),
      Expectation("expect_column_values_to_be_between", "income"),
      Expectation("expect_column_values_to_not_be_null", "account_status"),
      Expectation("expect_column_values_to_be_in_set", "account_status"),
      Expectation("expect_column_values_to_match_strftime_format", "date_of_birth"),
      Expectation("expect_column_values_to_match_strftime_format", "created_date")>>

\* value_set of the account_status expectation
StatusSet ==
    {<<"a","c","t","i","v","e">>, <<"i","n","a","c","t","i","v","e">>,
     <<"s","u","s","p","e","n","d","e","d">>}

\* min_value=1 for customer_id (no maximum); min_value=0, max_value=10_000_000 for income
InRange(column, n) ==
    IF column = "customer_id" THEN n >= 1 ELSE n >= 0 /\ n <= 10000000

\* regex ^[a-zA-Z\s]+$
LettersAndSpaces(s) == s # <<>> /\ \A i \in 1..Len(s) : IsCased(s[i]) \/ IsSpace(s[i])

\* datetime.strptime(s, '%Y-%m-%d') succeeds
MatchesStrftime(s) == IsoShape(s) /\ CalendarDate(FieldsOf("%Y-%m-%d", s))

\* whether the non-null value c of row i of t meets expectation e
Meets(e, t, i) ==
    LET c == t[i][e.column]
    IN  CASE e.type = "expect_column_values_to_be_unique" ->
                ~\E j \in Rows(t) : j # i /\ t[j][e.column] = c
          [] e.type = "expect_column_values_to_be_between" ->
                c.t = "num" /\ InRange(e.column, c.n)
          [] e.type = "expect_column_value_lengths_to_be_between" ->
                Len(PyStr(c)) >= 2 /\ Len(PyStr(c)) <= 50
          [] e.type = "expect_column_values_to_match_regex" ->
                c.t = "str" /\ LettersAndSpaces(c.s)
          [] e.type = "expect_column_values_to_be_in_set" ->
                c.t = "str" /\ c.s \in StatusSet
          [] e.type = "expect_column_values_to_match_strftime_format" ->
                c.t = "str" /\ MatchesStrftime(c.s)

\* the 0-based positions of the rows of t that violate expectation e
Unexpected(e, t) ==
    IF e.type = "expect_column_values_to_not_be_null"
    THEN {i - 1 : i \in {j \in Rows(t) : IsNa(t[j][e.column])}}
    ELSE {i - 1 : i \in {j \in Rows(t) : NotNa(t[j][e.column]) /\ ~Meets(e, t, j)}}

\* a set of integers as an ascending list
RECURSIVE Ascending(_)
Ascending(S) ==
    IF S = {} THEN <<>>
    ELSE LET lo == CHOOSE x \in S : \A y \in S : x <= y
         IN  <<lo>> \o Ascending(S \ {lo})

\* s[:n]
Prefix(s, n) == SubSeq(s, 1, IF Len(s) < n THEN Len(s) ELSE n)

\* validation_definition.run(batch_parameters=...) passes no result_format: the
\* results come in the default format of Great Expectations 1.x
ResultFormat == "SUMMARY"

\* the 'result' dict of one expectation's result.  SUMMARY carries the counts and
\* the partial lists; only COMPLETE adds unexpected_list and unexpected_index_list
ResultDict(format, e, t) ==
    LET indices == Ascending(Unexpected(e, t))
        values == [k \in 1..Len(indices) |-> t[indices[k] + 1][e.column]]
        summary == [element_count |-> Len(t),
                    unexpected_count |-> Len(indices),
                    partial_unexpected_list |-> Prefix(values, 20),
                    partial_unexpected_index_list |-> Prefix(indices, 20)]
    IN  IF format = "COMPLETE"
        THEN [element_count |-> Len(t),
              unexpected_count |-> Len(indices),
              partial_unexpected_list |-> Prefix(values, 20),
              partial_unexpected_index_list |-> Prefix(indices, 20),
              unexpected_list |-> values,
              unexpected_index_list |-> indices]
        ELSE summary

\* the result of one expectation
ExpectationResult(e, t) ==
    [success |-> Unexpected(e, t) = {},
     expectation_config |-> e,
     result |-> ResultDict(ResultFormat, e, t)]

\* validate(): the suite's result on the table t
Validate(suite, t) ==
    LET results == [k \in 1..Len(suite) |-> ExpectationResult(suite[k], t)]
        passed == Cardinality({k \in 1..Len(suite) : results[k].success})
    IN  [ran |-> TRUE,
         success |-> passed = Len(suite),
         statistics |-> [evaluated_expectations |-> Len(suite),
                         successful_expectations |-> passed,
                         unsuccessful_expectations |-> Len(suite) - passed],
         results |-> results]

\* run(): status = "PASS" if results_clean.success else "FAIL"
QualityStatus(result) == IF result.success THEN "PASS" ELSE "FAIL"

\* dict.get(key, []) on a result dict
GetList(d, key) == IF key \in DOMAIN d THEN d[key] ELSE <<>>

\* _generate_custom_report: one entry of DETAILED FAILURES
FailureEntry(res) ==
    LET indices == GetList(res.result, "unexpected_index_list")
        human_indices == [k \in 1..Len(indices) |-> indices[k] + 1]
    IN  [column |-> res.expectation_config.column,
         issue |-> res.expectation_config.type,
         human_indices |-> human_indices,
         failed_rows |-> Prefix(human_indices, 10),
         sample_values |-> Prefix(GetList(res.result, "partial_unexpected_list"), 3)]

\* the entries of the expectations that failed, in suite order
RECURSIVE FailureEntries(_, _)
FailureEntries(results, k) ==
    IF k = 0 THEN <<>>
    ELSE FailureEntries(results, k - 1)
         \o (IF results[k].success THEN <<>> ELSE <<FailureEntry(results[k])>>)

\* _generate_custom_report: failed_indices is the union of the human_indices of
\* the failing expectations, and IMPACT is its size
GenerateCustomReport(result) ==
    LET failures == FailureEntries(result.results, Len(result.results))
        failed_indices == UNION {{failures[k].human_indices[j] : j \in 1..Len(failures[k].human_indices)} :
                                    k \in 1..Len(failures)}
    IN  [written |-> TRUE,
         pass |-> result.statistics.successful_expectations,
         fail |-> result.statistics.unsuccessful_expectations,
         impact |-> Cardinality(failed_indices),
         failures |-> failures]

----------------------------------------------------------------------------
(* PIIDetector.scan_pii: it reads the table it was given and counts *)

\* [a-zA-Z0-9._%+-] and [a-zA-Z0-9.-]
IsLocalChar(c) == IsCased(c) \/ IsDigit(c) \/ c \in {".", "_", "%", "+", "-"}
IsDomainChar(c) == IsCased(c) \/ IsDigit(c) \/ c \in {".", "-"}

\* re.search of patterns['email'] finds a match in s: a local character, '@',
\* one or more domain characters, '.', and two letters
EmailFound(s) ==
    \E k \in 2..Len(s) : \E j \in (k + 2)..(Len(s) - 2) :
        /\ s[k] = "@" /\ IsLocalChar(s[k - 1])
        /\ \A x \in (k + 1)..(j - 1) : IsDomainChar(s[x])
        /\ s[j] = "." /\ IsCased(s[j + 1]) /\ IsCased(s[j + 2])

\* [-.\s]
IsSeparator(c) == c \in {"-", "."} \/ IsSpace(c)

DigitsAt(s, a, b) == b <= Len(s) /\ AllDigits(s, a, b)

\* re.search of patterns['phone'] finds a match in s; the country prefix and the
\* opening parenthesis are optional, so a match exists exactly when the rest
\* matches somewhere: DDD, ')' or not, a separator or not, DDD, a separator or
\* not, DDDD
PhoneFound(s) ==
    \E i \in 1..Len(s) : \E a, b, c \in {0, 1} :
        LET p == i + 3
            q == p + a + b
            r == q + 3
            u == r + c
        IN  /\ DigitsAt(s, i, i + 2)
            /\ a = 1 => (p <= Len(s) /\ s[p] = ")")
            /\ b = 1 => (p + a <= Len(s) /\ IsSeparator(s[p + a]))
            /\ DigitsAt(s, q, q + 2)
            /\ c = 1 => (r <= Len(s) /\ IsSeparator(s[r]))
            /\ DigitsAt(s, u, u + 3)

\* scan_pii: the four counts
ScanPii(t) ==
    [scanned |-> TRUE,
     emails |-> Count({i \in Rows(t) : EmailFound(PyStr(t[i].email))}),
     phones |-> Count({i \in Rows(t) : PhoneFound(PyStr(t[i].phone))}),
     addresses |-> Count({i \in Rows(t) : NotNa(t[i].address) /\ Len(PyStr(t[i].address)) > 5}),
     dobs |-> Count({i \in Rows(t) :
                        /\ Lower(PyStr(t[i].date_of_birth)) # <<"i","n","v","a","l","i","d","_","d","a","t","e">>
                        /\ NotNa(t[i].date_of_birth)})]

----------------------------------------------------------------------------
(* DataRemediator as a state machine: a handle and the calls made on it *)

\* the handle's table and counters
Handle == [df |-> df, log_stats |-> log_stats]

\* the pipeline is not running
PipelineIdle ==
    /\ pc = "idle" /\ input_exists = TRUE /\ fault_at = "none"
    /\ execution_log = <<>> /\ files = {} /\ report_writes = 0
    /\ pending_exc = "none" /\ raised_in = "none" /\ escaped = FALSE

\* no DataRemediator has been constructed
RemediatorIdle ==
    /\ src_df = <<>> /\ df = <<>> /\ log_stats = InitialLogStats
    /\ last_op = "none" /\ raised = "none" /\ calls = 0

NoRuns == [m \in MaskerMethods |-> 0]

\* no DataMasker has been constructed
MaskerIdle ==
    /\ mask_src = <<>> /\ mask_df = <<>> /\ mask_runs = NoRuns
    /\ mask_raised = "unconstructed"

\* validate() has not run: no result, no report
NoResult ==
    [ran |-> FALSE, success |-> FALSE,
     statistics |-> [evaluated_expectations |-> 0, successful_expectations |-> 0,
                     unsuccessful_expectations |-> 0],
     results |-> <<>>]
NoReport == [written |-> FALSE, pass |-> 0, fail |-> 0, impact |-> 0, failures |-> <<>>]

\* no validate() call has been made: nothing is registered in the context
ContextEmpty ==
    /\ val_raised = "none" /\ validations = 0
    /\ gx_data_sources = {} /\ gx_validation_definitions = {} /\ now = 0

\* no FintechGXValidator has been constructed
ValidatorIdle ==
    /\ val_df = <<>> /\ val_suite = <<>> /\ val_result = NoResult /\ val_report = NoReport
    /\ ContextEmpty

\* generate_log has not run
NoCleaningLog ==
    [written |-> FALSE, phone_fixes |-> 0, date_fixes |-> 0, name_fixes |-> 0,
     missing_fills |-> <<>>,
     validation_before |-> 0, validation_after |-> 0, status |-> "none", rows |-> 0]

CleaningIdle == cleaning_log = NoCleaningLog /\ quality_status = "none"

\* no DataProfiler has been constructed
ProfilerIdle ==
    /\ prof_file = <<>> /\ prof_df = <<>> /\ prof_loaded = FALSE /\ total_rows = 0
    /\ report_lines = <<>> /\ prof_raised = "none" /\ prof_warnings = {} /\ prof_steps = 0

\* the names setup_pipeline_logger is called with
LoggerNames == {"Profiler", "Orchestrator", "GXValidator_V1", "FintechPipeline"}

\* a name logging.getLogger has not been asked for yet
NoLogger == [id |-> 0, level |-> "NOTSET", handlers |-> <<>>]

\* no logger has been created
LoggingIdle ==
    /\ loggerDict = [n \in LoggerNames |-> NoLogger]
    /\ root_handlers = 0
    /\ setup_calls = [n \in LoggerNames |-> 0]
    /\ last_logger = 0

\* the components outside the data path have not run
OthersIdle == CleaningIdle /\ ProfilerIdle /\ LoggingIdle

\* scan_pii has not run
NoRisk == [scanned |-> FALSE, emails |-> 0, phones |-> 0, addresses |-> 0, dobs |-> 0]

PiiIdle == risk_results = NoRisk

\* DataRemediator.__init__: self.df = df.copy(), the handle owns its table
RemediatorOwnsCopy == TRUE

\* DataRemediator(df): a private copy of the table, zeroed counters
Init ==
    /\ src_df \in Tables
    /\ df = src_df
    /\ log_stats = InitialLogStats
    /\ last_op = "__init__"
    /\ raised = "none"
    /\ calls = 0
    /\ PipelineIdle
    /\ MaskerIdle
    /\ ValidatorIdle
    /\ PiiIdle
    /\ OthersIdle

\* a call can be made: the chain is not over and no earlier call raised
CanCall == pc = "idle" /\ calls < MaxCalls /\ raised = "none"

\* a call of method m that returns self with the handle as st
Returns(m, st) ==
    /\ m \in RemediatorMethods
    /\ df' = st.df
    /\ log_stats' = st.log_stats
    /\ last_op' = m
    /\ raised' = "none"
    /\ calls' = calls + 1
    /\ src_df' = IF RemediatorOwnsCopy THEN src_df ELSE st.df
    /\ UNCHANGED notRem

\* a call of a method the class does not define: AttributeError, nothing changes
RaisesAttributeError(m) ==
    /\ m \notin RemediatorMethods
    /\ last_op' = m
    /\ raised' = "AttributeError"
    /\ calls' = calls + 1
    /\ UNCHANGED <<src_df, df, log_stats, notRem>>

normalize_names == CanCall /\ Returns("normalize_names", NormalizeNames(Handle))

normalize_phones == CanCall /\ Returns("normalize_phones", NormalizePhones(Handle))

\* the result depends on the pandas the build runs on
normalize_dates ==
    /\ CanCall
    /\ \E major \in PandasMajors : Returns("normalize_dates", NormalizeDates(Handle, major))

handle_missing == CanCall /\ Returns("handle_missing", HandleMissing(Handle))

\* remediator.normalize_emails(), as main.py and the tests call it
normalize_emails == CanCall /\ RaisesAttributeError("normalize_emails")

Next ==
    \/ normalize_names
    \/ normalize_phones
    \/ normalize_dates
    \/ handle_missing
    \/ normalize_emails

Spec == Init /\ [][Next]_vars

----------------------------------------------------------------------------
(* DataMasker as a state machine: a handle and the calls made on it *)

\* the values a column of a table handed to DataMasker ranges over
MaskValues(col) ==
    CASE col \in {"first_name", "last_name"} ->
            {StrCell(<<"J","o","h","n">>), StrCell(Placeholder), StrCell(<<>>), NoneCell, NaNCell}
      [] col = "email" ->
            {StrCell(<<"b","o","b","@","e","m","a","i","l",".","c","o","m">>),
             StrCell(<<"a","@","b","@","c",".","i","o">>),
             StrCell(<<"@","x",".","i","o">>),
             StrCell(<<"n","o","n","e">>), NaNCell}
      [] col = "phone" ->
            {StrCell(<<"5","5","5","-","1","2","3","-","4","5","6","7">>),
             StrCell(<<"5","5","5","-","1","2","3","-","4","5","6","7","\n">>),
             StrCell(<<"(","5","5","5",")"," ","2","3","4","-","5","6","7","8">>),
             NaNCell}
      [] col = "address" -> {StrCell(<<"1","2","3"," ","M","a","i","n"," ","S","t">>), NaNCell}
      [] col = "date_of_birth" ->
            {StrCell(<<"1","9","8","5","-","0","3","-","1","5">>), StrCell(<<"n","/","a">>),
             StrCell(Placeholder), NaNCell}

\* the columns DataMasker assigns
MaskColumnSet == {"first_name", "last_name", "email", "phone", "address", "date_of_birth"}

\* a clean table in which one of the masked columns takes any of its values
UnmaskedTables ==
    UNION {{[i \in 1..NRows |-> [CleanRow(i) EXCEPT ![col] = v[i]]] :
                v \in [1..NRows -> MaskValues(col)]} : col \in MaskColumnSet}

\* the tables DataMasker is constructed on: unmasked tables and the output of
\* the masking chain on each of them
MaskTables ==
    UnmaskedTables
    \cup {RunMaskChain(t, MaskChain, Len(MaskChain)).df :
            t \in {u \in UnmaskedTables : RunMaskChain(u, MaskChain, Len(MaskChain)).exc = "none"}}

\* a __init__ that keeps the caller's table itself: self.df = df
MaskerOwnsCopy_Alias == FALSE

\* DataMasker.__init__: self.df = df.copy(), the handle owns its table
MaskerOwnsCopy == TRUE

\* DataMasker(df) constructed on one of the tables, no method called yet
InitMasker ==
    /\ mask_src \in MaskTables
    /\ mask_df = mask_src
    /\ mask_runs = NoRuns
    /\ mask_raised = "none"
    /\ RemediatorIdle
    /\ PipelineIdle
    /\ ValidatorIdle
    /\ PiiIdle
    /\ OthersIdle

\* a call can be made on the masker: it exists and no earlier call raised
CanMask == pc = "idle" /\ mask_raised = "none"

\* a call of method m on the handle: it returns self, or raises and leaves the
\* columns it had not yet assigned as they were
MaskCall(m) ==
    /\ mask_runs[m] < MaxMaskRuns
    /\ LET r == MaskMethod(m, mask_df)
       IN  /\ mask_df' = r.df
           /\ mask_raised' = r.exc
           /\ mask_src' = IF MaskerOwnsCopy THEN mask_src ELSE r.df
    /\ mask_runs' = [mask_runs EXCEPT ![m] = @ + 1]
    /\ UNCHANGED notMask

mask_names == CanMask /\ MaskCall("mask_names")

mask_emails == CanMask /\ MaskCall("mask_emails")

mask_phones == CanMask /\ MaskCall("mask_phones")

mask_addresses == CanMask /\ MaskCall("mask_addresses")

mask_dob == CanMask /\ MaskCall("mask_dob")

NextMasker ==
    \/ mask_names
    \/ mask_emails
    \/ mask_phones
    \/ mask_addresses
    \/ mask_dob

SpecMasker == InitMasker /\ [][NextMasker]_vars

----------------------------------------------------------------------------
(* FintechGXValidator as a state machine *)

\* the tables a validator is constructed on: income is a numeric column
ValidatorTables == {t \in Tables : \A i \in Rows(t) : t[i].income.t # "str"}

\* FintechGXValidator(df): a reference to the table and an empty suite
InitValidator ==
    /\ val_df \in ValidatorTables
    /\ val_suite = <<>>
    /\ val_result = NoResult
    /\ val_report = NoReport
    /\ ContextEmpty
    /\ RemediatorIdle
    /\ PipelineIdle
    /\ MaskerIdle
    /\ PiiIdle
    /\ OthersIdle

\* build_expectations(): the 14 expectations are added to the suite
build_expectations ==
    /\ pc = "idle"
    /\ val_df # <<>>
    /\ val_suite = <<>>
    /\ val_suite' = val_suite \o Expectations
    /\ UNCHANGED <<val_df, val_result, val_report, val_raised, validations,
                   gx_data_sources, gx_validation_definitions, now, notVal>>

\* the seconds that pass between one validate() call and the one before it
Elapsed == {0, 1, 3600}

\* pd.Timestamp.now().strftime('%M%S'): the minute and the second of the hour
MinuteSecond(t) == <<(t \div 60) % 60, t % 60>>

\* ds_name = f"pandas_datasource_{...}"
DataSourceName(t) == <<"pandas_datasource_", MinuteSecond(t)>>

\* gx.ValidationDefinition(name="fintech_validation_def", ...)
ValidationDefinitionName == "fintech_validation_def"

\* the error validate() ends with at clock t: the context refuses to add a data
\* source (line 67), then a validation definition (line 74), under a name it holds
ValidateRaises(t) ==
    IF DataSourceName(t) \in gx_data_sources THEN "DuplicateDataSource"
    ELSE IF ValidationDefinitionName \in gx_validation_definitions
         THEN "DuplicateValidationDefinition"
         ELSE "none"

\* validate(report_path), called d seconds after the previous call on a built
\* suite: the names are registered, the suite is run on the table and the report
\* is written; a refused name ends the call where it is raised
ValidateAt(d) ==
    /\ pc = "idle"
    /\ val_df # <<>>
    /\ val_suite # <<>>
    /\ now' = now + d
    /\ validations' = validations + 1
    /\ val_raised' = ValidateRaises(now')
    /\ gx_data_sources' = gx_data_sources \cup {DataSourceName(now')}
    /\ IF val_raised' = "none"
       THEN /\ gx_validation_definitions' = gx_validation_definitions \cup {ValidationDefinitionName}
            /\ val_result' = Validate(val_suite, val_df)
            /\ val_report' = GenerateCustomReport(val_result')
       ELSE UNCHANGED <<gx_validation_definitions, val_result, val_report>>
    /\ UNCHANGED <<val_df, val_suite, notVal>>

\* a validate() call, some time after the previous one
validate == validations < MaxValidations /\ \E d \in Elapsed : ValidateAt(d)

NextValidator == build_expectations \/ validate

SpecValidator == InitValidator /\ [][NextValidator]_vars

----------------------------------------------------------------------------
(* FintechPipeline.run *)

\* the statements of the try block of run(), in order
StageOrder ==
    <<"header", "load", "validate_raw", "profile", "clean", "revalidate",
      "cleaning_log", "detect_pii", "mask", "save", "summary">>

StageNames == {StageOrder[k] : k \in 1..Len(StageOrder)}

StageIndex(s) == CHOOSE k \in 1..Len(StageOrder) : StageOrder[k] = s

\* the statement after s; after the last one the try block is left
NextStage(s) ==
    IF StageIndex(s) = Len(StageOrder) THEN "finally" ELSE StageOrder[StageIndex(s) + 1]

FinalReport == "pipeline_execution_report.txt"

\* the files a stage writes, in the order it writes them
StageFiles(s) ==
    CASE s = "validate_raw" -> <<"validation_results_raw.txt">>
      [] s = "profile"      -> <<"data_profile_report.txt">>
      [] s = "revalidate"   -> <<"validation_results.txt">>
      [] s = "cleaning_log" -> <<"cleaning_log.txt">>
      [] s = "detect_pii"   -> <<"pii_detection_report.txt">>
      [] s = "mask"         -> <<"masked_sample.txt">>
      [] s = "save"         -> <<"customers_cleaned.csv", "customers_masked.csv">>
      [] OTHER              -> <<>>

\* every file run() writes
OutputFiles ==
    UNION {{StageFiles(s)[k] : k \in 1..Len(StageFiles(s))} : s \in StageNames}
    \cup {FinalReport}

\* what a stage that completes appends to execution_log
StageLog(s) ==
    CASE s = "header"       -> <<"PIPELINE EXECUTION REPORT", "=========================", "Timestamp">>
      [] s = "load"         -> <<"Stage 1: LOAD">>
      [] s = "validate_raw" -> <<"Stage 2: VALIDATE (RAW)">>
      [] s = "clean"        -> <<"Stage 3: CLEAN">>
      [] s = "revalidate"   -> <<"Stage 4: VALIDATE (CLEANED)">>
      [] s = "detect_pii"   -> <<"Stage 6: DETECT PII">>
      [] s = "mask"         -> <<"Stage 7: MASK">>
      [] s = "save"         -> <<"Stage 8: SAVE">>
      [] s = "summary"      -> <<"SUMMARY: Execution Status: SUCCESS">>
      [] OTHER              -> <<>>

FailedEntry == "STATUS: FAILED Error"

\* the chain of calls run() makes on the remediator
CleanChain ==
    <<"normalize_names", "normalize_emails", "normalize_phones", "normalize_dates",
      "handle_missing">>

\* one call of the chain on the handle st
ApplyMethod(m, st, major) ==
    CASE m = "normalize_names"  -> NormalizeNames(st)
      [] m = "normalize_phones" -> NormalizePhones(st)
      [] m = "normalize_dates"  -> NormalizeDates(st, major)
      [] m = "handle_missing"   -> HandleMissing(st)
      [] OTHER                  -> st

\* the first k calls of a chain on a fresh DataRemediator(t): the chain stops at
\* the first call that raises
RECURSIVE RunChain(_, _, _, _)
RunChain(t, chain, k, major) ==
    IF k = 0
    THEN [df |-> t, log_stats |-> InitialLogStats, last_op |-> "__init__",
          raised |-> "none", calls |-> 0]
    ELSE LET r == RunChain(t, chain, k - 1, major)
         IN  IF r.raised # "none" THEN r
             ELSE IF chain[k] \notin RemediatorMethods
                  THEN [r EXCEPT !.last_op = chain[k], !.raised = "AttributeError",
                                 !.calls = @ + 1]
                  ELSE LET st == ApplyMethod(chain[k], [df |-> r.df, log_stats |-> r.log_stats], major)
                       IN  [df |-> st.df, log_stats |-> st.log_stats, last_op |-> chain[k],
                            raised |-> "none", calls |-> r.calls + 1]

\* the position in StageFiles(s) of the write the environment fails, or 0
FaultPosition(s) ==
    IF \E k \in 1..Len(StageFiles(s)) : StageFiles(s)[k] = fault_at
    THEN CHOOSE k \in 1..Len(StageFiles(s)) : StageFiles(s)[k] = fault_at
    ELSE 0

\* the files stage s has written when it ends: all of them, or those before
\* the write that failed
WrittenBy(s) ==
    LET n == IF FaultPosition(s) = 0 THEN Len(StageFiles(s)) ELSE FaultPosition(s) - 1
    IN  {StageFiles(s)[k] : k \in 1..n}

\* the tables an input file can hold
PipelineTables == SampleTables \cup {[i \in 1..NRows |-> CleanRow(i)]}

\* FintechPipeline(...) constructed, run() not yet called
InitPipeline ==
    /\ input_exists \in BOOLEAN
    /\ fault_at \in OutputFiles \cup {"none"}
    /\ src_df \in (IF input_exists THEN PipelineTables ELSE {<<>>})
    /\ df = <<>>
    /\ log_stats = InitialLogStats
    /\ last_op = "none"
    /\ raised = "none"
    /\ calls = 0
    /\ pc = "header"
    /\ execution_log = <<>>
    /\ files = {}
    /\ report_writes = 0
    /\ pending_exc = "none"
    /\ raised_in = "none"
    /\ escaped = FALSE
    /\ MaskerIdle
    /\ ValidatorIdle
    /\ PiiIdle
    /\ OthersIdle

\* a CLEAN stage whose remediation chain does not raise
StageRaises_CleanCompletes(s, r) ==
    IF s = "load" /\ ~input_exists THEN "FileNotFoundError"
    ELSE IF FaultPosition(s) # 0 THEN "OSError"
    ELSE "none"

\* the exception stage s raises given the remediation chain's outcome r, or "none"
StageRaises(s, r) ==
    IF s = "load" /\ ~input_exists THEN "FileNotFoundError"
    ELSE IF s = "clean" /\ r.raised # "none" THEN r.raised
    ELSE IF FaultPosition(s) # 0 THEN "OSError"
    ELSE "none"

\* one statement of the try block: it completes and logs, or it raises and
\* control passes to the except clause
Stage ==
    /\ pc \in StageNames
    /\ \E major \in PandasMajors :
         LET r == IF pc = "clean"
                  THEN RunChain(src_df, CleanChain, Len(CleanChain), major)
                  ELSE [df |-> df, log_stats |-> log_stats, last_op |-> last_op,
                        raised |-> raised, calls |-> calls]
             exc == StageRaises(pc, r)
         IN  /\ df' = r.df
             /\ log_stats' = r.log_stats
             /\ last_op' = r.last_op
             /\ raised' = r.raised
             /\ calls' = r.calls
             /\ files' = files \cup WrittenBy(pc)
             /\ pending_exc' = exc
             /\ raised_in' = IF exc = "none" THEN raised_in ELSE pc
             /\ execution_log' = IF exc = "none" THEN execution_log \o StageLog(pc)
                                 ELSE execution_log
             /\ pc' = IF exc = "none" THEN NextStage(pc) ELSE "except"
    /\ UNCHANGED <<src_df, input_exists, fault_at, report_writes, escaped, notPipe>>

\* an except clause that lets the exception go on
Except_Reraise ==
    /\ pc = "except"
    /\ pc' = "finally"
    /\ UNCHANGED <<remVars, input_exists, fault_at, execution_log, files, report_writes,
                   pending_exc, raised_in, escaped, notPipe>>

\* except Exception as e: the failure is appended to execution_log
Except ==
    /\ pc = "except"
    /\ execution_log' = Append(execution_log, FailedEntry)
    /\ pending_exc' = "none"
    /\ pc' = "finally"
    /\ UNCHANGED <<remVars, input_exists, fault_at, files, report_writes, raised_in, escaped, notPipe>>

\* finally: _write_final_report(); a failure of this write leaves run()
Finally ==
    /\ pc = "finally"
    /\ IF fault_at = FinalReport
       THEN /\ escaped' = TRUE
            /\ UNCHANGED <<files, report_writes>>
       ELSE /\ files' = files \cup {FinalReport}
            /\ report_writes' = report_writes + 1
            /\ escaped' = (pending_exc # "none")
    /\ pc' = "done"
    /\ UNCHANGED <<remVars, input_exists, fault_at, execution_log, pending_exc, raised_in, notPipe>>

NextPipeline == Stage \/ Except \/ Finally

SpecPipeline == InitPipeline /\ [][NextPipeline]_vars

----------------------------------------------------------------------------
(* The components as run() composes them on one table: a DataRemediator is  *)
(* constructed on the raw table and called; a FintechGXValidator and a      *)
(* PIIDetector are then given the remediator's table (cleaned_df is         *)
(* remediator.df itself); a DataMasker is constructed on it last.           *)

\* remediator = DataRemediator(raw_df) and the calls made on it, while no later
\* component has been given its table
Remediate == val_df = <<>> /\ Next

\* FintechGXValidator(cleaned_df): the validator keeps a reference to the table
FintechGXValidator_init ==
    /\ pc = "idle"
    /\ val_df = <<>>
    /\ raised = "none"
    /\ val_df' = df
    /\ UNCHANGED <<val_suite, val_result, val_report, val_raised, validations,
                   gx_data_sources, gx_validation_definitions, now, notVal>>

\* validator_clean.build_expectations().validate(...): the one validate() call
\* run() makes on the validator of the cleaned table
validate_cleaned == validations = 0 /\ ValidateAt(0)

\* errors_before: the failures of the validation of raw_df, the table the
\* remediator was constructed on
ErrorsBefore == Validate(Expectations, src_df).statistics.unsuccessful_expectations

\* run(), lines 74-83: status is taken from the re-validation and
\* remediator.generate_log(...) writes the cleaning log
generate_log ==
    /\ pc = "idle"
    /\ val_result.ran
    /\ ~cleaning_log.written
    /\ quality_status' = QualityStatus(val_result)
    /\ cleaning_log' = GenerateLog(Handle, ErrorsBefore,
                                   val_result.statistics.unsuccessful_expectations)
    /\ UNCHANGED notClean

\* PIIDetector(cleaned_df).scan_pii()
scan_pii ==
    /\ pc = "idle"
    /\ cleaning_log.written
    /\ ~risk_results.scanned
    /\ risk_results' = ScanPii(df)
    /\ UNCHANGED notPii

\* DataMasker(cleaned_df): the masker takes a copy of the table
DataMasker_init ==
    /\ pc = "idle"
    /\ risk_results.scanned
    /\ mask_raised = "unconstructed"
    /\ mask_src' = df
    /\ mask_df' = df
    /\ mask_raised' = "none"
    /\ UNCHANGED <<mask_runs, notMask>>

NextComponents ==
    \/ Remediate
    \/ FintechGXValidator_init
    \/ build_expectations
    \/ validate_cleaned
    \/ generate_log
    \/ scan_pii
    \/ DataMasker_init
    \/ NextMasker

\* the raw table is one an input file can hold
InitComponents == Init /\ src_df \in PipelineTables

SpecComponents == InitComponents /\ [][NextComponents]_vars

----------------------------------------------------------------------------
(* DataProfiler.  load_data reads the input file with pd.read_csv: an empty  *)
(* field and the NA spellings are read as NaN, the spaces that open a field  *)
(* are skipped, and a column gets a numeric dtype unless one of its values   *)
(* is not a number.  The cells of a numeric column are kept as they are      *)
(* written in the file; Dtype gives the dtype of the column.  A line of      *)
(* report_lines is a record [label, col, value, count].                      *)

\* the spellings of a missing value, of pandas' default na_values, that the data uses
NaStrings == {<<>>, <<"n","a","n">>, <<"n","/","a">>}

\* skipinitialspace=True
RECURSIVE LStrip(_)
LStrip(s) == IF s # <<>> /\ s[1] = " " THEN LStrip(Tail(s)) ELSE s

\* one field of the file as pd.read_csv reads it
ReadCell(c) ==
    IF IsNa(c) THEN NaNCell
    ELSE IF c.t = "str"
         THEN (IF LStrip(c.s) \in NaStrings THEN NaNCell ELSE StrCell(LStrip(c.s)))
         ELSE c

\* pd.read_csv(self.input_path, skipinitialspace=True)
ReadCsv(file) ==
    [i \in 1..Len(file) |-> [col \in DOMAIN file[i] |-> ReadCell(file[i][col])]]

\* a field that parses as a number
IsNumberText(c) == c.t = "num" \/ (c.t = "str" /\ c.s # <<>> /\ AllDigits(c.s, 1, Len(c.s)))

\* the dtype read_csv infers for a column; the columns of a file without rows are object
Dtype(t, col) ==
    IF t = <<>> \/ \E i \in Rows(t) : NotNa(t[i][col]) /\ ~IsNumberText(t[i][col])
    THEN "object"
    ELSE IF \E i \in Rows(t) : IsNa(t[i][col]) THEN "float64" ELSE "int64"

\* str.contains(sub) for a literal sub
Contains(s, sub) ==
    \E k \in 1..(Len(s) - Len(sub) + 1) : SubSeq(s, k, k + Len(sub) - 1) = sub

Line(label, col, value, count) ==
    [label |-> label, col |-> col, value |-> value, count |-> count]

\* the DataProfiler object
Profiler ==
    [file |-> prof_file, df |-> prof_df, loaded |-> prof_loaded, total_rows |-> total_rows,
     report_lines |-> report_lines, raised |-> prof_raised, warnings |-> prof_warnings]

\* load_data(): FileNotFoundError if the file is missing, else the table is read
LoadData(p, exists) ==
    IF ~exists THEN [p EXCEPT !.raised = "FileNotFoundError"]
    ELSE [p EXCEPT !.df = ReadCsv(p.file), !.loaded = TRUE, !.total_rows = Len(p.file)]

\* null_count + invalid_str_count of a column: the nulls and, in an object
\* column, the values whose lowercase text contains 'invalid_date'
TotalMissing(t, col) ==
    Count({i \in Rows(t) : IsNa(t[i][col])})
    + (IF Dtype(t, col) = "object"
       THEN Count({i \in Rows(t) :
                     Contains(Lower(PyStr(t[i][col])),
                              <<"i","n","v","a","l","i","d","_","d","a","t","e">>)})
       ELSE 0)

\* round(num / den) as f"{x:.0f}" rounds: to the nearest, a tie to the even one
RoundHalfEven(num, den) ==
    LET q == num \div den
        r == num % den
    IN  IF 2 * r > den THEN q + 1
        ELSE IF 2 * r = den THEN q + (q % 2)
        ELSE q

\* f"{percent:.0f}" for percent = ((total_rows - total_missing) / total_rows) * 100,
\* computed on numpy scalars: with total_rows = 0 the quotient 0 / 0 is nan
PercentText(rows, missing) ==
    IF rows = 0 THEN <<"n","a","n">>
    ELSE IntStr(RoundHalfEven(100 * (rows - missing), rows))

\* _check_completeness: the header and one entry per column; the division by
\* total_rows is made whatever total_rows is, and numpy warns when it is 0.
\* Without a table self.df.columns raises
CheckCompleteness(p) ==
    LET header == <<Line("COMPLETENESS:", "", <<>>, 0)>>
        entries == [k \in 1..Len(Columns) |->
                      Line("completeness", Columns[k],
                           PercentText(p.total_rows, TotalMissing(p.df, Columns[k])),
                           TotalMissing(p.df, Columns[k]))]
    IN  IF ~p.loaded
        THEN [p EXCEPT !.report_lines = @ \o header, !.raised = "AttributeError"]
        ELSE [p EXCEPT !.report_lines = @ \o header \o entries,
                       !.warnings = IF p.total_rows = 0 THEN @ \cup {"RuntimeWarning"} ELSE @]

\* the columns of the 'expected' dict of _check_data_types and their types
ExpectedTypes ==
    <<<<"customer_id", "INT">>, <<"first_name", "STRING">>, <<"last_name", "STRING">>,
      <<"email", "STRING">>, <<"phone", "STRING">>, <<"address", "STRING">>,
      <<"account_status", "STRING">>>>

\* any(df[col].astype(str).str.contains('/|invalid'))
LooksLikeText(t, col) ==
    \E i \in Rows(t) :
        \/ Contains(PyStr(t[i][col]), <<"/">>)
        \/ Contains(PyStr(t[i][col]), <<"i","n","v","a","l","i","d">>)

\* _check_data_types: the header, the seven expected types, then the flag of
\* date_of_birth and the flag of income
CheckDataTypes(p) ==
    LET header == <<Line("DATA TYPES:", "", <<>>, 0)>>
        types == [k \in 1..Len(ExpectedTypes) |->
                    Line(ExpectedTypes[k][2], ExpectedTypes[k][1], <<>>, 0)]
        dob == IF LooksLikeText(p.df, "date_of_birth")
               THEN <<Line("STRING  (should be DATE)", "date_of_birth", <<>>, 0)>>
               ELSE <<>>
        inc == IF Dtype(p.df, "income") = "object" \/ \E i \in Rows(p.df) : IsNa(p.df[i].income)
               THEN <<Line("NUMERIC  (detected as Mixed/Object)", "income", <<>>, 0)>>
               ELSE <<>>
    IN  IF ~p.loaded
        THEN [p EXCEPT !.report_lines = @ \o header, !.raised = "AttributeError"]
        ELSE [p EXCEPT !.report_lines = @ \o header \o types \o dob \o inc]

\* the rows whose phone matches [\.\(\)]
PhoneVariants(t) ==
    {i \in Rows(t) : NotNa(t[i].phone)
                     /\ \E k \in 1..Len(PyStr(t[i].phone)) : PyStr(t[i].phone)[k] \in {".", "(", ")"}}

\* the rows whose account_status is not null and not one of valid_statuses
InvalidStatus(t) ==
    {i \in Rows(t) : NotNa(t[i].account_status) /\ PyStr(t[i].account_status) \notin StatusSet}

\* Series.is_unique
IsUnique(t, col) == \A i, j \in Rows(t) : i # j => t[i][col] # t[j][col]

\* _check_quality_issues: the header, then the phone formats, the categories and
\* the uniqueness of customer_id.  The .str accessor of the phone column raises
\* AttributeError unless the column holds strings; without a table self.df[...]
\* raises TypeError
CheckQualityIssues(p) ==
    LET header == <<Line("QUALITY ISSUES:", "", <<>>, 0)>>
        phones == IF PhoneVariants(p.df) # {}
                  THEN <<Line("1. Non-standard Phone Formats", "phone", <<>>,
                              Count(PhoneVariants(p.df)))>>
                  ELSE <<>>
        status == IF InvalidStatus(p.df) # {}
                  THEN <<Line("2. Invalid Category Values", "account_status", <<>>,
                              Count(InvalidStatus(p.df)))>>
                  ELSE <<>>
        ids == IF ~IsUnique(p.df, "customer_id")
               THEN <<Line("3. Duplicate Customer IDs detected.", "customer_id", <<>>, 0)>>
               ELSE <<>>
    IN  IF ~p.loaded
        THEN [p EXCEPT !.report_lines = @ \o header, !.raised = "TypeError"]
        ELSE IF Dtype(p.df, "phone") # "object"
        THEN [p EXCEPT !.report_lines = @ \o header, !.raised = "AttributeError"]
        ELSE [p EXCEPT !.report_lines = @ \o header \o phones \o status \o ids]

\* the lines run_full_analysis appends after the three checks
SeverityLines ==
    <<Line("SEVERITY:", "", <<>>, 0),
      Line("- Critical (blocks processing)", "", <<>>, 2),
      Line("- High (data incorrect)", "", <<>>, 3)>>

\* run_full_analysis up to the write of the report: the table is loaded if it
\* is not, the checks run in order, and the first exception ends the call
RunFullAnalysis(p, exists) ==
    LET p0 == IF p.loaded THEN p ELSE LoadData(p, exists)
        p1 == IF p0.raised # "none" THEN p0 ELSE CheckCompleteness(p0)
        p2 == IF p1.raised # "none" THEN p1 ELSE CheckDataTypes(p1)
        p3 == IF p2.raised # "none" THEN p2 ELSE CheckQualityIssues(p2)
    IN  IF p3.raised # "none" THEN p3
        ELSE [p3 EXCEPT !.report_lines = @ \o SeverityLines]

----------------------------------------------------------------------------
(* DataProfiler as a state machine: an object and the calls made on it *)

\* the input files: the tables, and a file that holds the header line alone
ProfilerFiles == Tables \cup {<<>>}

\* DataProfiler(input_path) constructed on a file that exists or not
InitProfiler ==
    /\ input_exists \in BOOLEAN
    /\ prof_file \in (IF input_exists THEN ProfilerFiles ELSE {<<>>})
    /\ prof_df = <<>> /\ prof_loaded = FALSE /\ total_rows = 0
    /\ report_lines = <<>> /\ prof_raised = "none" /\ prof_warnings = {} /\ prof_steps = 0
    /\ pc = "idle" /\ fault_at = "none"
    /\ execution_log = <<>> /\ files = {} /\ report_writes = 0
    /\ pending_exc = "none" /\ raised_in = "none" /\ escaped = FALSE
    /\ RemediatorIdle
    /\ MaskerIdle
    /\ ValidatorIdle
    /\ PiiIdle
    /\ CleaningIdle
    /\ LoggingIdle

\* a call can be made on the profiler: no earlier call raised
CanProfile == pc = "idle" /\ prof_raised = "none" /\ prof_steps < MaxProfilerCalls

\* a call that leaves the DataProfiler object as p
ProfilerCall(p) ==
    /\ prof_df' = p.df
    /\ prof_loaded' = p.loaded
    /\ total_rows' = p.total_rows
    /\ report_lines' = p.report_lines
    /\ prof_raised' = p.raised
    /\ prof_warnings' = p.warnings
    /\ prof_steps' = prof_steps + 1
    /\ UNCHANGED <<prof_file, notProf>>

load_data == CanProfile /\ ProfilerCall(LoadData(Profiler, input_exists))

check_completeness == CanProfile /\ ProfilerCall(CheckCompleteness(Profiler))

check_data_types == CanProfile /\ ProfilerCall(CheckDataTypes(Profiler))

check_quality_issues == CanProfile /\ ProfilerCall(CheckQualityIssues(Profiler))

\* run_full_analysis(output_report_path): the report is written when no check
\* raised; an exception is logged and raised again
run_full_analysis ==
    /\ CanProfile
    /\ LET p == RunFullAnalysis(Profiler, input_exists)
       IN  /\ prof_df' = p.df
           /\ prof_loaded' = p.loaded
           /\ total_rows' = p.total_rows
           /\ report_lines' = p.report_lines
           /\ prof_raised' = p.raised
           /\ prof_warnings' = p.warnings
           /\ files' = IF p.raised = "none" THEN files \cup {"data_profile_report.txt"} ELSE files
    /\ prof_steps' = prof_steps + 1
    /\ UNCHANGED <<prof_file, remVars, pc, input_exists, fault_at, execution_log, report_writes,
                   pending_exc, raised_in, escaped, maskVars, valVars, piiVars, cleanVars, logVars>>

NextProfiler ==
    \/ load_data
    \/ check_completeness
    \/ check_data_types
    \/ check_quality_issues
    \/ run_full_analysis

SpecProfiler == InitProfiler /\ [][NextProfiler]_vars

----------------------------------------------------------------------------
(* setup_pipeline_logger and the loggers of the logging module.  A logger is *)
(* a record [id, level, handlers]; id = 0 while logging.getLogger has not    *)
(* created it, and the ids tell the logger objects apart.                    *)

\* the log_file arguments
LogFiles == {"pipeline.log", "test.log"}

\* logging.FileHandler(log_file) at level DEBUG
FileHandler(log_file) == [kind |-> "FileHandler", level |-> "DEBUG", target |-> log_file]

\* logging.StreamHandler(sys.stdout) at level INFO
ConsoleHandler == [kind |-> "StreamHandler", level |-> "INFO", target |-> "stdout"]

\* logging.getLogger(name): the logger registered under the name, created the
\* first time the name is asked for
GetLogger(dict, name) ==
    IF dict[name].id # 0 THEN dict
    ELSE [dict EXCEPT ![name].id = 1 + Cardinality({n \in LoggerNames : dict[n].id # 0})]

\* Logger.hasHandlers(): a handler on the logger itself or on the root logger
HasHandlers(dict, root, name) == dict[name].handlers # <<>> \/ root > 0

\* a setup that attaches its two handlers on every call
SetupPipelineLogger_NoGuard(dict, root, name, log_file) ==
    [GetLogger(dict, name) EXCEPT
        ![name].level = "DEBUG",
        ![name].handlers = @ \o <<FileHandler(log_file), ConsoleHandler>>]

\* setup_pipeline_logger(name, log_file): loggerDict after the call; a logger
\* that has handlers is returned as it is
SetupPipelineLogger(dict, root, name, log_file) ==
    IF HasHandlers(GetLogger(dict, name), root, name)
    THEN GetLogger(dict, name)
    ELSE [GetLogger(dict, name) EXCEPT
            ![name].level = "DEBUG",
            ![name].handlers = @ \o <<FileHandler(log_file), ConsoleHandler>>]

\* the process starts with no logger; the root logger has a handler or not
InitLogging ==
    /\ loggerDict = [n \in LoggerNames |-> NoLogger]
    /\ root_handlers \in {0, 1}
    /\ setup_calls = [n \in LoggerNames |-> 0]
    /\ last_logger = 0
    /\ RemediatorIdle
    /\ PipelineIdle
    /\ MaskerIdle
    /\ ValidatorIdle
    /\ PiiIdle
    /\ CleaningIdle
    /\ ProfilerIdle

\* a call of setup_pipeline_logger: it returns the logger of the name; the
\* FileHandler it constructs opens log_file
setup_pipeline_logger ==
    \E name \in LoggerNames, log_file \in LogFiles :
        /\ pc = "idle"
        /\ setup_calls[name] < MaxSetupCalls
        /\ loggerDict' = SetupPipelineLogger(loggerDict, root_handlers, name, log_file)
        /\ last_logger' = loggerDict'[name].id
        /\ setup_calls' = [setup_calls EXCEPT ![name] = @ + 1]
        /\ files' = IF loggerDict'[name].handlers # loggerDict[name].handlers
                    THEN files \cup {log_file} ELSE files
        /\ UNCHANGED <<root_handlers, remVars, pc, input_exists, fault_at, execution_log,
                       report_writes, pending_exc, raised_in, escaped, maskVars, valVars,
                       piiVars, cleanVars, profVars>>

NextLogging == setup_pipeline_logger

SpecLogging == InitLogging /\ [][NextLogging]_vars

----------------------------------------------------------------------------
(* Claims about setup_pipeline_logger (specification SpecLogging) *)

\* the handlers of a kind on the logger of a name
HandlersOfKind(name, kind) ==
    {k \in 1..Len(loggerDict[name].handlers) : loggerDict[name].handlers[k].kind = kind}

\* C27: setup_pipeline_logger is idempotent per name: every call after the first
\* with the same name returns the same logger object and leaves its handler
\* count as the first call left it, and a logger never has more than one file
\* handler and one console handler.
C27_SetupIdempotentPerName ==
    /\ [](\A n \in LoggerNames :
            /\ Cardinality(HandlersOfKind(n, "FileHandler")) <= 1
            /\ Cardinality(HandlersOfKind(n, "StreamHandler")) <= 1)
    /\ [][\A n \in LoggerNames :
            (setup_calls'[n] = setup_calls[n] + 1 /\ setup_calls[n] >= 1) =>
                /\ loggerDict'[n].id = loggerDict[n].id
                /\ last_logger' = loggerDict[n].id
                /\ Len(loggerDict'[n].handlers) = Len(loggerDict[n].handlers)]_vars

\* C27 witness: a name set up twice whose logger, the one returned, has the two
\* handlers of the first call
C27_Witness ==
    \E n \in LoggerNames :
        /\ setup_calls[n] = 2
        /\ last_logger = loggerDict[n].id
        /\ Len(loggerDict[n].handlers) = 2
        /\ Cardinality(HandlersOfKind(n, "FileHandler")) = 1

----------------------------------------------------------------------------
(* Claims about DataProfiler (specification SpecProfiler) *)

\* report_lines holds a line with this label for this column
HasLine(label, col) ==
    \E k \in 1..Len(report_lines) : report_lines[k].label = label /\ report_lines[k].col = col

\* two rows of t have the same customer_id
SharesCustomerId(t) ==
    \E i, j \in Rows(t) :
        i # j /\ NotNa(t[i].customer_id) /\ t[i].customer_id = t[j].customer_id

\* C23: for every table in which two rows share a customer_id, the Profiler's
\* quality-issue scan appends the 'Duplicate Customer IDs detected' line, and the
\* Validator's uniqueness expectation on customer_id fails, so that overall
\* success is false.
C23_DuplicateIdsDetectedByBoth ==
    (prof_loaded /\ SharesCustomerId(prof_df) /\ HasLine("QUALITY ISSUES:", "")) =>
        /\ HasLine("3. Duplicate Customer IDs detected.", "customer_id")
        /\ Unexpected(Expectation("expect_column_values_to_be_unique", "customer_id"), prof_df) # {}
        /\ ~Validate(Expectations, prof_df).success

\* C24: the completeness analysis guards the division by total_rows: on a table
\* with zero rows it divides by nothing (no exception, no warning of a division
\* by zero) and reports no number; with rows it reports, per column, the percent
\* of total_rows - missing_count over total_rows, missing_count being the nulls
\* plus, in string columns only, the values whose lowercase form contains
\* 'invalid_date'.
C24_CompletenessGuardsZeroRows ==
    (prof_loaded /\ HasLine("COMPLETENESS:", "")) =>
        /\ total_rows = 0 =>
             /\ prof_warnings = {}
             /\ \A k \in 1..Len(report_lines) :
                    report_lines[k].label = "completeness" =>
                        report_lines[k].value \notin {<<"n","a","n">>, <<"i","n","f">>}
        /\ total_rows > 0 =>
             \A k \in 1..Len(report_lines) :
                report_lines[k].label = "completeness" =>
                    LET col == report_lines[k].col
                        missing == Count({i \in Rows(prof_df) :
                                     \/ IsNa(prof_df[i][col])
                                     \/ /\ prof_df[i][col].t = "str"
                                        /\ Contains(Lower(prof_df[i][col].s),
                                                    <<"i","n","v","a","l","i","d","_","d","a","t","e">>)})
                    IN  /\ report_lines[k].count = missing
                        /\ report_lines[k].value
                             = IntStr(RoundHalfEven(100 * (total_rows - missing), total_rows))

\* C25: the type-conformance analysis flags each of date_of_birth and
\* created_date as 'should be DATE' whenever a value of that column contains '/'
\* or 'invalid'; a slash date in created_date alone yields a flag line for
\* created_date.
C25_BothDateColumnsFlagged ==
    (prof_loaded /\ HasLine("DATA TYPES:", "")) =>
        \A col \in {"date_of_birth", "created_date"} :
            LooksLikeText(prof_df, col) => HasLine("STRING  (should be DATE)", col)

----------------------------------------------------------------------------
(* Claims about DataRemediator (specification Spec) *)

Unknown == StrCell(<<"[","U","N","K","N","O","W","N","]">>)

NameColumns == {"first_name", "last_name"}
DateColumns == {"date_of_birth", "created_date"}
FillSet == {FillColumns[k] : k \in 1..Len(FillColumns)}
AllColumns == {Columns[k] : k \in 1..Len(Columns)}

\* a phone of the form DDD-DDD-DDDD
CanonicalPhone(c) ==
    /\ c.t = "str"
    /\ Len(c.s) = 12
    /\ AllDigits(c.s, 1, 3) /\ c.s[4] = "-" /\ AllDigits(c.s, 5, 7)
    /\ c.s[8] = "-" /\ AllDigits(c.s, 9, 12)

\* C1: normalize_phones is idempotent on canonical values: a phone that is
\* already DDD-DDD-DDDD is left unchanged and adds nothing to phone_fixes, so a
\* call adds at most the number of phones that were not canonical.
C1_CanonicalPhoneNotCounted ==
    [][normalize_phones =>
        /\ \A i \in Rows(df) : CanonicalPhone(df[i].phone) => df'[i].phone = df[i].phone
        /\ log_stats'.phone_fixes - log_stats.phone_fixes
             <= Count({i \in Rows(df) : ~CanonicalPhone(df[i].phone)})]_vars

\* C2: normalize_names leaves a null name null, so the chain normalize_names()
\* then handle_missing() on a fresh handle ends with '[UNKNOWN]' in every name
\* cell that was null in the input.
C2_NullNameFilledAfterNormalize ==
    [][(handle_missing /\ calls = 1 /\ last_op = "normalize_names") =>
        \A i \in Rows(df) : \A col \in NameColumns :
            IsNa(src_df[i][col]) => df'[i][col] = Unknown]_vars

\* the name cells a call of normalize_names is meant to count: not null, and
\* different from their trimmed, title-cased value
NameNeedsFix(c) == NotNa(c) /\ StrCell(Title(Strip(PyStr(c)))) # c

\* C3: a call of normalize_names adds to name_fixes exactly the number of
\* non-null first_name and last_name cells whose trimmed, title-cased value
\* differs from their value before the call; null cells add nothing.
C3_NameFixesCountNonNullChanges ==
    [][normalize_names =>
        log_stats'.name_fixes - log_stats.name_fixes
          = Count({i \in Rows(df) : NameNeedsFix(df[i].first_name)})
            + Count({i \in Rows(df) : NameNeedsFix(df[i].last_name)})]_vars

\* C4: normalize_emails returns the handle (raises nothing), lower-cases every
\* non-null email and leaves a null email unchanged.
C4_NormalizeEmailsLowercases ==
    [][normalize_emails =>
        /\ raised' = "none"
        /\ \A i \in Rows(df) :
             df'[i].email = IF IsNa(df[i].email) THEN df[i].email
                            ELSE StrCell(Lower(PyStr(df[i].email)))]_vars

\* what the claim calls a value that can be parsed
Parseable(c) == c.t = "str" /\ ParseAny(c.s) # NaT

\* C7: after normalize_dates every date cell is null or YYYY-MM-DD: the
\* sentinel and every unparseable value become null, a parseable value in
\* another layout (1975/05/10) becomes its YYYY-MM-DD form, and a date
\* already in YYYY-MM-DD form is unchanged.
C7_DatesNormalized ==
    [][normalize_dates =>
        \A i \in Rows(df) : \A col \in DateColumns :
            /\ IsNa(df'[i][col]) \/ IsoShape(PyStr(df'[i][col]))
            /\ ~Parseable(df[i][col]) => IsNa(df'[i][col])
            /\ Parseable(df[i][col]) => df'[i][col] = Strftime(ParseAny(df[i][col].s))
            /\ (Parseable(df[i][col]) /\ IsoShape(df[i][col].s)) => df'[i][col] = df[i][col]]_vars

\* the three fix counters never decrease
FixCountersGrow ==
    /\ log_stats'.phone_fixes >= log_stats.phone_fixes
    /\ log_stats'.date_fixes >= log_stats.date_fixes
    /\ log_stats'.name_fixes >= log_stats.name_fixes

\* C8 (as stated): over any sequence of remediation operations no counter
\* decreases, neither a fix counter nor any per-column entry of missing_fills.
C8_NoCounterDecreases ==
    [][/\ FixCountersGrow
       /\ \A c \in DOMAIN log_stats.missing_fills :
            /\ c \in DOMAIN log_stats'.missing_fills
            /\ log_stats'.missing_fills[c] >= log_stats.missing_fills[c]]_vars

\* C8 (amended): the fix counters never decrease; missing_fills is changed only
\* by handle_missing, which sets every filled column's entry to the count of
\* that call, whatever the entry held before.
C8_FixCountersCumulativeFillsOverwritten ==
    [][/\ FixCountersGrow
       /\ ~handle_missing => log_stats'.missing_fills = log_stats.missing_fills
       /\ handle_missing =>
            /\ DOMAIN log_stats'.missing_fills = FillSet
            /\ \A c \in FillSet : log_stats'.missing_fills[c] = MissingCount(df, c)]_vars

\* C8 witness: handle_missing was called twice on a table with a null address:
\* the second call has reset the address entry to 0
C8_Witness ==
    /\ last_op = "handle_missing" /\ calls >= 2
    /\ \E i \in Rows(df) : IsNa(src_df[i].address)
    /\ "address" \in DOMAIN log_stats.missing_fills
    /\ log_stats.missing_fills["address"] = 0

\* the cells of a column that handle_missing is meant to count, each once
MissingCells(t, col) ==
    {i \in Rows(t) : IsNa(t[i][col])
                     \/ (col = "income" /\ Lower(PyStr(t[i][col])) = <<"n","a","n">>)}

\* C9: after handle_missing, missing_fills[col] is the number of cells of col
\* that were null (for income: null or the string 'nan') just before the fill,
\* each counted once.
C9_MissingFillsCountEachCellOnce ==
    [][handle_missing =>
        \A c \in FillSet :
            /\ c \in DOMAIN log_stats'.missing_fills
            /\ log_stats'.missing_fills[c] = Count(MissingCells(df, c))]_vars

SlashCreatedDate == StrCell(<<"0","1","/","1","5","/","2","0","2","4">>)
IsoCreatedDate == StrCell(<<"2","0","2","4","-","0","1","-","1","5">>)

\* C11: after normalize_dates() followed by handle_missing() on a fresh handle,
\* a date_of_birth that was the sentinel 'invalid_date' or null holds
\* '[UNKNOWN]', and a created_date of '01/15/2024' holds '2024-01-15'.
C11_InvalidDateFilledSlashDateParsed ==
    [][(handle_missing /\ calls = 1 /\ last_op = "normalize_dates") =>
        \A i \in Rows(df) :
            /\ ReplaceSentinel(src_df[i].date_of_birth).t \in {"nan", "none"}
                 => df'[i].date_of_birth = Unknown
            /\ src_df[i].created_date = SlashCreatedDate
                 => df'[i].created_date = IsoCreatedDate]_vars

\* the number of digits format_phone finds in a value
DigitCount(c) == Len(OnlyDigits(PyStr(c)))

\* C13: normalize_phones does not raise, returns every phone whose digit count
\* is not exactly 10 (null, 0, 7 or 11 digits) unchanged, and adds to
\* phone_fixes nothing for such a value.
C13_OtherDigitCountsUntouched ==
    [][normalize_phones =>
        /\ raised' = "none"
        /\ \A i \in Rows(df) : DigitCount(df[i].phone) # 10 => df'[i].phone = df[i].phone
        /\ log_stats'.phone_fixes - log_stats.phone_fixes
             <= Count({i \in Rows(df) : DigitCount(df[i].phone) = 10})]_vars

\* C13 witness: normalize_phones has run on a table with a null phone and a phone
\* of 7 or 11 digits; both are as they were and phone_fixes is still 0
C13_Witness ==
    /\ last_op = "normalize_phones" /\ calls = 1 /\ raised = "none"
    /\ \E i \in Rows(df) : IsNa(src_df[i].phone) /\ df[i].phone = src_df[i].phone
    /\ \E i \in Rows(df) : DigitCount(src_df[i].phone) \in {7, 11} /\ df[i].phone = src_df[i].phone
    /\ log_stats.phone_fixes = 0

\* C28: the placeholder written by handle_missing is stable under every later
\* remediation operation, in any order the caller chooses: a name or address
\* cell that holds '[UNKNOWN]' still holds it after any further call
\* (normalize_names included), so that the Masker's passthrough recognises it.
C28_PlaceholderStable ==
    [][\A i \in Rows(df) : \A col \in {"first_name", "last_name", "address"} :
            df[i][col] = Unknown => df'[i][col] = Unknown]_vars

\* the expectations of the suite that fail on t
FailingExpectations(t) ==
    {Expectations[k] : k \in {j \in 1..Len(Expectations) : Unexpected(Expectations[j], t) # {}}}

\* C29: remediation never introduces a new validation failure: the defaults
\* handle_missing writes satisfy every expectation on their column, so the
\* expectations failing on the remediated table are among those failing on the
\* table before remediation.
C29_RemediationAddsNoFailure ==
    calls > 0 => FailingExpectations(df) \subseteq FailingExpectations(src_df)

----------------------------------------------------------------------------
(* Claims about FintechPipeline.run (specification SpecPipeline) *)

InLog(entry) == \E k \in 1..Len(execution_log) : execution_log[k] = entry

\* C5: with the input file present and no write failing, run() executes every
\* stage without a raise and ends with the SUMMARY entry and both output tables
\* written.
C5_RunCompletesAllStages ==
    (pc = "done" /\ input_exists /\ fault_at = "none") =>
        /\ raised_in = "none"
        /\ InLog("SUMMARY: Execution Status: SUCCESS")
        /\ {"customers_cleaned.csv", "customers_masked.csv"} \subseteq files

\* C6: whichever stage raises, the exception does not leave run(), it is
\* recorded in execution_log as a FAILED entry, and the final report is written
\* exactly once, after the last executed stage.
C6_FailureRecordedReportWrittenOnce ==
    /\ report_writes <= 1
    /\ report_writes = 1 => pc = "done"
    /\ fault_at # FinalReport => ~escaped
    /\ (pc = "done" /\ fault_at # FinalReport) => report_writes = 1
    /\ (pc \in {"finally", "done"} /\ raised_in # "none") =>
            /\ execution_log # <<>>
            /\ execution_log[Len(execution_log)] = FailedEntry

\* C6 witness: the input file is missing, LOAD raised, and run() has returned
C6_Witness ==
    /\ pc = "done" /\ ~input_exists /\ raised_in = "load"
    /\ report_writes = 1 /\ ~escaped /\ InLog(FailedEntry)

\* the two output tables
OutputTables == {"customers_cleaned.csv", "customers_masked.csv"}

CleanTable == [i \in 1..NRows |-> CleanRow(i)]

\* C12: the remediation chain of run() on an already clean table completes,
\* leaves every cell unchanged, leaves the name, phone, date and email fix
\* counters and every missing-fill count at zero, and its result passes the
\* Validator.
C12_CleanTableRoundTrip ==
    (src_df = CleanTable /\ last_op # "none") =>
        /\ raised = "none"
        /\ df = src_df
        /\ "email_fixes" \in DOMAIN log_stats
        /\ \A k \in DOMAIN log_stats \ {"missing_fills"} : log_stats[k] = 0
        /\ \A c \in DOMAIN log_stats.missing_fills : log_stats.missing_fills[c] = 0
        /\ Validate(Expectations, df).success

----------------------------------------------------------------------------
(* Claims about DataMasker (specification SpecMasker) *)

\* the position of the first '@' of s
FirstAt(s) == CHOOSE k \in AtPositions(s) : \A j \in AtPositions(s) : k <= j

\* what the claim says mask_emails makes of a string with an '@': the first
\* character of the part before the first '@', '***@', and all after that '@'
MaskedAtFirstAt(s) ==
    StrCell(SubSeq(s, 1, IF FirstAt(s) > 1 THEN 1 ELSE 0) \o Stars \o <<"@">>
            \o SubSeq(s, FirstAt(s) + 1, Len(s)))

\* C14: mask_emails never raises; a value with at least one '@' (also with two
\* or more) becomes the first character of the part before the first '@', then
\* '***@', then everything after the first '@'; a null value and a value
\* without '@' pass through unchanged.
C14_EmailMaskedAtFirstAt ==
    [][mask_emails =>
        /\ mask_raised' = "none"
        /\ \A i \in Rows(mask_df) :
             LET c == mask_df[i].email
             IN  mask_df'[i].email =
                    IF IsNa(c) \/ AtPositions(PyStr(c)) = {} THEN c
                    ELSE MaskedAtFirstAt(PyStr(c))]_vars

\* C15: mask_phones maps a value that exactly matches DDD-DDD-DDDD to '***-***-'
\* followed by its last 4 digits and every other value (null, non-canonical,
\* already masked) to '***-***-****'.
C15_PhoneMaskedOrFallback ==
    [][mask_phones =>
        \A i \in Rows(mask_df) :
            LET c == mask_df[i].phone
            IN  mask_df'[i].phone =
                   IF CanonicalPhone(c)
                   THEN StrCell(<<"*","*","*","-","*","*","*","-">> \o SubSeq(c.s, 9, 12))
                   ELSE MaskedPhoneFallback]_vars

\* C16: mask_names maps every non-null first_name and last_name other than the
\* placeholder to its first character followed by '***' and returns the
\* placeholder and null values unchanged.
C16_NameMaskedPlaceholderKept ==
    [][mask_names =>
        \A i \in Rows(mask_df) : \A col \in NameColumns :
            LET c == mask_df[i][col]
            IN  mask_df'[i][col] =
                   IF IsNa(c) \/ c = Unknown THEN c
                   ELSE StrCell(SubSeq(PyStr(c), 1, 1) \o Stars)]_vars

\* the columns of method m, as a set
ColumnsOf(m) == {MaskedColumns(m)[k] : k \in 1..Len(MaskedColumns(m))}

\* C17: each masking operation changes only its own column(s), and once the
\* five operations have been applied, in whatever order, the table is the one
\* masked table of the input: no order fails to produce it.
C17_MaskingOrderInsensitive ==
    [][\A m \in MaskerMethods :
         mask_runs'[m] # mask_runs[m] =>
            /\ \A i \in Rows(mask_df) : \A col \in AllColumns \ ColumnsOf(m) :
                  mask_df'[i][col] = mask_df[i][col]
            /\ (mask_raised' # "none" \/ \A k \in MaskerMethods : mask_runs'[k] = 1) =>
                  /\ mask_raised' = "none"
                  /\ mask_df' = RunMaskChain(mask_src, MaskChain, Len(MaskChain)).df]_vars

\* the tables the masking chain produced
MaskedOutputs == MaskTables \ UnmaskedTables

\* C18: on a table that the masking chain produced, no masking operation
\* raises, so the chain applied again completes.
C18_RemaskingNeverRaises ==
    mask_src \in MaskedOutputs => mask_raised = "none"

\* C18 witness: the five operations have run again on a masked table
C18_Witness ==
    /\ mask_src \in MaskedOutputs
    /\ \A m \in MaskerMethods : mask_runs[m] = 1
    /\ mask_raised = "none"
    /\ \E i \in Rows(mask_df) : mask_df[i].phone = MaskedPhoneFallback

----------------------------------------------------------------------------
(* Claims about FintechGXValidator (specification SpecValidator) *)

\* the rows of t, 1-based, that violate at least one expectation of the suite
ViolatingRows(t) ==
    UNION {{i + 1 : i \in Unexpected(Expectations[k], t)} : k \in 1..Len(Expectations)}

\* C20: the report's IMPACT figure is the number of distinct rows that violated
\* at least one expectation, a row violating several being counted once, and
\* it is at least any single expectation's count of violating rows.
C20_ImpactCountsDistinctFailedRows ==
    val_report.written =>
        /\ val_report.impact = Cardinality(ViolatingRows(val_df))
        /\ \A k \in 1..Len(Expectations) :
              val_report.impact >= Cardinality(Unexpected(Expectations[k], val_df))

----------------------------------------------------------------------------
(* Claims about the composed components (specification SpecComponents) *)

\* two tables have the same number of rows and the same columns
SameShape(a, b) == Len(a) = Len(b) /\ \A i \in 1..Len(a) : DOMAIN a[i] = DOMAIN b[i]

\* C19: no component changes a table it does not own: no operation changes the
\* table given to DataRemediator or the table given to DataMasker; once the
\* cleaned table has been handed on, validation, PII detection and masking
\* leave it as it is; and every operation keeps the number of rows and the
\* columns of the table it works on.
C19_NoComponentMutatesForeignTable ==
    [][/\ src_df' = src_df
       /\ mask_raised # "unconstructed" => mask_src' = mask_src
       /\ val_df # <<>> => (val_df' = val_df /\ df' = df)
       /\ SameShape(df, df')
       /\ mask_raised # "unconstructed" => SameShape(mask_df, mask_df')]_vars

\* C19 witness: remediation changed its copy, the cleaned table was validated,
\* scanned and masked, and the masker's copy differs from the cleaned table
C19_Witness ==
    /\ df # src_df
    /\ val_result.ran /\ risk_results.scanned
    /\ \A m \in MaskerMethods : mask_runs[m] = 1
    /\ mask_raised = "none"
    /\ mask_src = df /\ val_df = df
    /\ mask_df # df

Pending == StrCell(<<"p","e","n","d","i","n","g">>)

\* t is a clean table but for the account_status 'pending' of exactly one row
OnePendingRow(t) ==
    \E k \in Rows(t) :
        /\ t[k].account_status = Pending
        /\ Validate(Expectations,
                    [t EXCEPT ![k].account_status = StrCell(<<"a","c","t","i","v","e">>)]).success

\* the expectations of a result that failed
FailedExpectations(result) ==
    {result.results[k].expectation_config : k \in {j \in 1..Len(result.results) : ~result.results[j].success}}

\* C22: on an otherwise clean table with one row of account_status 'pending',
\* validation fails the account_status set-membership expectation and no other,
\* that row is the only violating row, and the report's impact count of distinct
\* failed rows is exactly 1.
C22_PendingRowCountedOnce ==
    (val_report.written /\ OnePendingRow(val_df)) =>
        /\ FailedExpectations(val_result)
             = {Expectation("expect_column_values_to_be_in_set", "account_status")}
        /\ Cardinality(ViolatingRows(val_df)) = 1
        /\ val_report.impact = 1

\* C30: every validate() call registers its data source and its validation
\* definition under names no earlier validate() call on the same context used,
\* whatever the timing of the calls (the same clock second, or one hour apart),
\* so a later validation never fails on a duplicate name.
C30_NamesNeverCollide == val_raised = "none"

----------------------------------------------------------------------------
(* Claims about the verdicts (specification SpecComponents) *)

\* C21: for every table the validator's success flag is true exactly when no
\* expectation was unsuccessful, and the successful and the unsuccessful ones add
\* up to the 14 expectations of the suite; the Quality Status of run() is PASS
\* exactly in that case, and the verdict of the cleaning log is PASS exactly when
\* the failure count after cleaning is 0.
C21_VerdictsFollowFailureCount ==
    /\ val_result.ran =>
         /\ val_result.success <=> val_result.statistics.unsuccessful_expectations = 0
         /\ val_result.statistics.successful_expectations
              + val_result.statistics.unsuccessful_expectations = Len(Expectations)
         /\ Len(Expectations) = 14
    /\ cleaning_log.written =>
         /\ quality_status = "PASS" <=> val_result.statistics.unsuccessful_expectations = 0
         /\ quality_status \in {"PASS", "FAIL"}
         /\ cleaning_log.validation_after = val_result.statistics.unsuccessful_expectations
         /\ cleaning_log.status = "PASS" <=> cleaning_log.validation_after = 0
         /\ cleaning_log.status \in {"PASS", "REVIEW REQUIRED"}

\* a cleaning log written after a re-validation with failures, fewer than before
C21_Witness ==
    /\ cleaning_log.written
    /\ quality_status = "FAIL"
    /\ cleaning_log.status = "REVIEW REQUIRED"
    /\ cleaning_log.validation_after > 0
    /\ cleaning_log.validation_after < cleaning_log.validation_before

====
